---- MODULE Spec2Model ----
(***************************************************************************)
(* gsid: the installation service (GsiService), one install session        *)
(* (the installer object held in installer_), the boot-status files and    *)
(* the progress record.                                                    *)
(*                                                                         *)
(* The service is the openInstall/createPartition revision of GsiService.  *)
(* The session object it drives is modelled from GsiInstaller (the         *)
(* per-partition revision: name_, size_, readOnly_, images_), whose        *)
(* methods are the ones the service calls.                                 *)
(*                                                                         *)
(* Byte counts are kept in units of 256 bytes (Bytes), so that the 2 GiB   *)
(* default userdata size fits a 32-bit integer.  Every byte count of the   *)
(* model is a multiple of 256 bytes.                                       *)
(***************************************************************************)
EXTENDS Integers, Sequences, FiniteSets, TLC

\* a count of n bytes, in the model's unit
Bytes(n) == n \div 256

\* ---------------------------------------------------------------- constants
LP_SECTOR_SIZE == Bytes(512)
kBlockSize == Bytes(4096)
kDefaultUserdataSize == 2 * 1024 * 1024 * Bytes(1024)
kMinimumFreeSpaceThreshold == 40

INSTALL_OK == 0
INSTALL_ERROR_GENERIC == 1
INSTALL_ERROR_NO_SPACE == 2
INSTALL_ERROR_FILE_SYSTEM_CLUTTERED == 3
\* not a status code: the binder call failed with EX_SECURITY
EX_SECURITY == 0 - 1
\* not a status code: the call returns no int
NoStatus == 0 - 2
\* not a status code: the daemon died during the call
DEAD_OBJECT == 0 - 32
\* not a uid: the call recorded is not one whose caller is recorded
NoUid == 0 - 1

STATUS_NO_OPERATION == 0
STATUS_WORKING == 1
STATUS_COMPLETE == 2

AID_ROOT == 0
AID_SYSTEM == 1000
AID_SHELL == 2000
\* the uid of a caller that is none of the three
AID_APP == AID_SHELL + 8000

\* ------------------------------------------------------------------- bounds
\* partition sizes a client asks for, in blocks
MaxBlocks == 2
BlockSizes == {b * kBlockSize : b \in 1..MaxBlocks}
\* the sizes with a negative one, zero and one that is not sector aligned
Sizes == {0 - LP_SECTOR_SIZE, 0, 1} \cup BlockSizes
\* chunk lengths a client asks to commit
MaxChunkBlocks == 3
ChunkBytes == {0 - kBlockSize, 0, kBlockSize \div 2} \cup {b * kBlockSize : b \in 1..MaxChunkBlocks}

Names == {"system", "userdata"}

\* the service instances constructed in one run, and the clients that ask
\* for one
MaxInstances == 3
Clients == {"c1", "c2", "c3"}

\* outcome of a file write or removal: done, refused before the file was
\* touched, or failed after the file was opened
IoOutcomes == {"ok", "open_fail", "write_fail"}

\* What the device does during one createPartition: the answer of statvfs,
\* the byte count the image manager reports to the progress callback (-1: it
\* never calls it), whether the image is created, mapped and zeroed, and the
\* outcome of the write of the install_dir file.  Everything works, or one
\* thing differs.
GoodEnv ==
    [ stats |-> [free |-> 10000000, total |-> 16000000], cb |-> 0 - 1,
      create_ok |-> TRUE, map_ok |-> TRUE, dev_write_ok |-> TRUE, io |-> "ok" ]

\* ------------------------------------------------------------------- paths
\* A path is the sequence of its components; slash says whether the string
\* ends in "/".  "/data/gsi/dsu/" is [comps |-> <<"data","gsi","dsu">>,
\* slash |-> TRUE]; the empty string is [comps |-> <<>>, slash |-> FALSE].
Path(comps, slash) == [comps |-> comps, slash |-> slash]
EmptyPath == Path(<<>>, FALSE)
kDefaultDsuImageFolder == Path(<<"data", "gsi", "dsu">>, TRUE)
DataGsi == Path(<<"data", "gsi">>, FALSE)

\* the directories that exist on the device
ExistingDirs == { <<"data", "gsi", "dsu">>, <<"data", "gsi">>, <<"data", "local">>,
                  <<"mnt", "media_rw", "sd">> }
\* what a client passes to openInstall
InstallDirInputs == { EmptyPath, DataGsi, Path(<<"data", "gsi", "dsu">>, FALSE),
                      Path(<<"data", "local">>, TRUE),
                      Path(<<"mnt", "media_rw", "sd">>, FALSE),
                      Path(<<"data", "nowhere">>, FALSE) }

GetBackingFile(name) == name \o "_gsi"
GsiImages == { GetBackingFile(n) : n \in Names }

\* ---------------------------------------------------------------- variables
VARIABLES
    install_dir_,      \* GsiService::install_dir_
    installer_,        \* GsiService::installer_ (the live session, or NoInstaller)
    should_abort_,     \* GsiService::should_abort_
    progress_,         \* GsiService::progress_
    lock_,             \* holder of Gsid::lock_
    progress_lock_,    \* holder of GsiService::progress_lock_
    install_status,    \* contents of the install_status file, or "absent"
    one_shot,          \* whether the one_shot file exists
    install_dir_file,  \* contents of the install_dir file, or AbsentFile
    complete,          \* directory names whose complete marker reads "OK"
    images,            \* names of the backing images that exist
    mapped,            \* names of the images mapped as block devices
    moved,             \* names of the images whose extents are no longer pinned
    booted,            \* whether the booted-into-GSI indicator file exists
    alive,             \* number of session objects constructed and not destroyed
    stream,            \* the commitGsiChunkFromStream call in flight
    cancel_pc,         \* the cancelGsiInstall call in flight
    reading,           \* the last progress reading taken during the commit in flight
    last,              \* the last call that returned, and what it returned
    gsid               \* GsiService::sInstance and the instances handed to clients

vars == << install_dir_, installer_, should_abort_, progress_, lock_, progress_lock_,
           install_status, one_shot, install_dir_file, complete, images, mapped,
           moved, booted, alive, stream, cancel_pc, reading, last, gsid >>

\* the boot-status files, the images and the mapped devices
files == << install_status, one_shot, install_dir_file, complete, images, mapped, moved >>

AbsentFile == [present |-> FALSE, text |-> EmptyPath]
FileOf(path) == [present |-> TRUE, text |-> path]

NoInstaller ==
    [ live |-> FALSE, install_dir |-> EmptyPath, name |-> "", size |-> 0,
      readOnly |-> FALSE, wipe |-> FALSE, wipe_on_failure |-> FALSE,
      succeeded |-> FALSE, gsi_bytes_written |-> 0, system_device |-> FALSE,
      device_manager |-> "none", ashmem_mapped |-> FALSE, ashmem_size |-> 0 - 1 ]

NoProgress == [ step |-> "", status |-> STATUS_NO_OPERATION,
                bytes_processed |-> 0, total_bytes |-> 0 ]

\* ------------------------------------------------------------ the file store
\* The on-disk and kernel state an operation works on, threaded through the
\* steps of one handler.
World ==
    [ install_status |-> install_status, one_shot |-> one_shot,
      install_dir_file |-> install_dir_file, complete |-> complete,
      images |-> images, mapped |-> mapped, moved |-> moved, progress |-> progress_,
      alive |-> alive ]

SetWorld(w) ==
    /\ install_status' = w.install_status
    /\ one_shot' = w.one_shot
    /\ install_dir_file' = w.install_dir_file
    /\ complete' = w.complete
    /\ images' = w.images
    /\ mapped' = w.mapped
    /\ moved' = w.moved
    /\ progress_' = w.progress
    /\ alive' = w.alive

\* android::base::WriteStringToFile: on success the file holds the new
\* contents; when the open fails the file is left as it was; when the write
\* fails the file is unlinked.
WriteStringToFile(old, new, absent, io) ==
    CASE io = "ok" -> new
      [] io = "open_fail" -> old
      [] OTHER -> absent

\* the device is never taken to run the installed image
IsGsiNeverRunning == FALSE

IsGsiRunning == booted
IsGsiInstalled == install_status # "absent"

\* The name of the directory holding the complete marker of an installation:
\* the last component of the install directory.
\* the component with its last character removed
ChopLast(c) ==
    CASE c = "dsu" -> "ds" [] c = "gsi" -> "gs" [] c = "local" -> "loca"
      [] c = "sd" -> "s" [] c = "nowhere" -> "nowher" [] OTHER -> ""

\* the last character of the string is dropped, then the text after the last
\* "/" is taken: the last component of a path that ends in "/", the last
\* component less one character of a path that does not
GetCompleteIndication(installation) ==
    IF installation.comps = <<>> THEN ""
    ELSE IF installation.slash THEN installation.comps[Len(installation.comps)]
    ELSE ChopLast(installation.comps[Len(installation.comps)])

\* --------------------------------------------------------- progress record
StartAsyncOperationWrites(step, total_bytes) ==
    << [f |-> "step", v |-> step, s |-> ""],
       [f |-> "status", v |-> STATUS_WORKING, s |-> ""],
       [f |-> "bytes_processed", v |-> 0, s |-> ""],
       [f |-> "total_bytes", v |-> total_bytes, s |-> ""] >>

\* with STATUS_COMPLETE the second write copies total_bytes as it is then
UpdateProgressWrites(status, bytes_processed) ==
    << [f |-> "status", v |-> status, s |-> ""],
       [f |-> "bytes_processed", v |-> bytes_processed,
        s |-> IF status = STATUS_COMPLETE THEN "total_bytes" ELSE ""] >>

\* one assignment to a field of the progress record
ApplyWrite(p, wr) ==
    CASE wr.f = "step" -> [p EXCEPT !.step = wr.v]
      [] wr.s = "total_bytes" -> [p EXCEPT !.bytes_processed = p.total_bytes]
      [] wr.f = "status" -> [p EXCEPT !.status = wr.v]
      [] wr.f = "bytes_processed" -> [p EXCEPT !.bytes_processed = wr.v]
      [] OTHER -> [p EXCEPT !.total_bytes = wr.v]

RECURSIVE ApplyWrites(_, _)
ApplyWrites(p, writes) ==
    IF writes = <<>> THEN p
    ELSE ApplyWrites(ApplyWrite(p, Head(writes)), Tail(writes))

StartAsyncOperation(p, step, total_bytes) ==
    ApplyWrites(p, StartAsyncOperationWrites(step, total_bytes))

UpdateProgress(p, status, bytes_processed) ==
    ApplyWrites(p, UpdateProgressWrites(status, bytes_processed))

\* -------------------------------------------------------------- image store
\* ImageManager::DeleteBackingImage unmaps the image first if it is mapped.
DeleteBackingImage(w, image) ==
    [w EXCEPT !.images = @ \ {image}, !.mapped = @ \ {image}, !.moved = @ \ {image}]

\* every image named *_gsi, the userdata image as well
AllImagesToRemove(all, wipeUserdata) == { i \in all : i \in GsiImages }

\* the images RemoveGsiFiles deletes: the names ending in "_gsi"; the
\* userdata image only when wipeUserdata is set
ImagesToRemove(all, wipeUserdata) ==
    { i \in all : i \in GsiImages /\ (wipeUserdata \/ i # GetBackingFile("userdata")) }

RemoveGsiFiles(w, install_dir, wipeUserdata) ==
    LET gone == ImagesToRemove(w.images, wipeUserdata) IN
    [w EXCEPT !.images = @ \ gone,
              !.mapped = @ \ gone,
              !.moved = @ \ gone,
              !.install_status = "absent",
              !.one_shot = FALSE,
              !.install_dir_file = AbsentFile,
              !.complete = @ \ {GetCompleteIndication(install_dir)}]

\* ImageManager::Validate: every image still has the extents its metadata
\* records
Validate(w) == w.moved \cap w.images = {}

\* ------------------------------------------------------- the install session
\* GsiInstaller::PostInstallCleanup(ImageManager*)
PostInstallCleanup(w, s) ==
    [w EXCEPT !.mapped = @ \ {GetBackingFile(s.name)}]

\* whether the destructor of the session removes the files of the
\* installation and leaves the userdata image: the session is not marked
\* succeeded and wipe_on_failure_ is false
KeepsUserdata(s) == s.live /\ ~s.succeeded /\ ~s.wipe_on_failure

\* MappedDevice::~MappedDevice: the descriptor is closed, then the device is
\* unmapped.  t is the teardown so far: the file store, whether the session's
\* descriptor on the device is open, and the events on the device in order.
ReleaseDevice(t, s) ==
    IF ~t.open THEN t
    ELSE [ w |-> PostInstallCleanup(t.w, s), open |-> FALSE,
           log |-> t.log \o << "close", "unmap" >> ]

\* the handle is kept until the members of the session are destroyed
KeepHandles(t, s) == t

\* Close open handles before we remove files: system_device_ = nullptr
CloseHandles(t, s) == ReleaseDevice(t, s)

\* PostInstallCleanup(images_.get()) within a teardown: an unmap of a device
\* the session still has open is noted as such
CleanupMapped(t, s) ==
    IF GetBackingFile(s.name) \notin t.w.mapped THEN t
    ELSE [ t EXCEPT !.w = PostInstallCleanup(t.w, s),
                    !.log = @ \o << IF t.open THEN "unmap while open" ELSE "unmap" >> ]

\* GsiInstaller::~GsiInstaller, step by step; the members are destroyed
\* after the body, system_device_ among them
Teardown(w, s) ==
    LET begun == [ w |-> [w EXCEPT !.alive = @ - 1], open |-> s.system_device,
                   log |-> << >> ]
        body == IF ~s.succeeded
                THEN LET cleaned == CleanupMapped(CloseHandles(begun, s), s) IN
                     [ cleaned EXCEPT !.w = RemoveGsiFiles(PostInstallCleanup(@, s),
                                                          s.install_dir, s.wipe_on_failure) ]
                ELSE begun
    IN ReleaseDevice(body, s)

\* no destructor: the session is dropped and left as it is
DestroyInstallerLeak(w, s) == w

\* GsiInstaller::~GsiInstaller: the file store it leaves
DestroyInstaller(w, s) == IF ~s.live THEN w ELSE Teardown(w, s).w

\* GsiInstaller::GsiInstaller
NewInstaller(w, install_dir, name, size, readOnly, wipe) ==
    [ live |-> TRUE, install_dir |-> install_dir, name |-> name,
      size |-> IF size # 0 THEN size ELSE kDefaultUserdataSize,
      readOnly |-> readOnly, wipe |-> wipe,
      wipe_on_failure |-> wipe \/ GetBackingFile(name) \notin w.images,
      succeeded |-> FALSE, gsi_bytes_written |-> 0, system_device |-> FALSE,
      device_manager |-> "none", ashmem_mapped |-> FALSE, ashmem_size |-> 0 - 1 ]

\* the same without the test of the free share of the file system
PerformSizeChecks(s, stats) ==
    IF s.size < 0 THEN INSTALL_ERROR_GENERIC
    ELSE IF IsGsiRunning THEN INSTALL_ERROR_GENERIC
    ELSE IF s.install_dir.comps \notin ExistingDirs THEN INSTALL_ERROR_GENERIC
    ELSE IF stats.free <= s.size THEN INSTALL_ERROR_NO_SPACE
    ELSE INSTALL_OK

\* GsiInstaller::PerformSanityChecks.  statvfs fails on a directory that does
\* not exist; free and total are its f_bavail * f_frsize and f_blocks *
\* f_frsize.
PerformSanityChecks(s, stats) ==
    IF s.size < 0 THEN INSTALL_ERROR_GENERIC
    ELSE IF IsGsiRunning THEN INSTALL_ERROR_GENERIC
    ELSE IF s.install_dir.comps \notin ExistingDirs THEN INSTALL_ERROR_GENERIC
    ELSE IF stats.free <= s.size THEN INSTALL_ERROR_NO_SPACE
    ELSE IF stats.free * 100 < kMinimumFreeSpaceThreshold * stats.total
         THEN INSTALL_ERROR_FILE_SYSTEM_CLUTTERED
    ELSE INSTALL_OK

\* GsiInstaller::CreateImage with its progress callback: cb is the byte count
\* the image manager reports to the callback, or -1 when it never calls it.
CreateImage(w, s, cb, create_ok, abort) ==
    LET reported == IF cb >= 0
                    THEN [w EXCEPT !.progress = UpdateProgress(@, STATUS_WORKING, cb)]
                    ELSE w
        ok == create_ok /\ ~(cb >= 0 /\ abort)
    IN [ w |-> IF ok THEN [reported EXCEPT !.images = @ \cup {GetBackingFile(s.name)}]
               ELSE reported,
         ok |-> ok ]

\* the same with the prior image deleted whether wipe_ is set or not
PreallocateFresh(w, s, cb, create_ok, abort) ==
    LET file == GetBackingFile(s.name)
        wiped == DeleteBackingImage(w, file)
        started == [wiped EXCEPT !.progress =
                       StartAsyncOperation(@, "create " \o s.name, s.size)]
        made == CreateImage(started, s, cb, create_ok, abort)
    IN IF ~made.ok
       THEN [w |-> made.w, status |-> INSTALL_ERROR_GENERIC,
             deleted |-> file \in w.images, created |-> FALSE]
       ELSE [w |-> [made.w EXCEPT !.progress = UpdateProgress(@, STATUS_COMPLETE, 0)],
             status |-> INSTALL_OK, deleted |-> file \in w.images, created |-> TRUE]

\* GsiInstaller::Preallocate.  deleted and created say whether an image of
\* the partition was deleted and whether one was created.
Preallocate(w, s, cb, create_ok, abort) ==
    LET file == GetBackingFile(s.name)
        wiped == IF s.wipe THEN DeleteBackingImage(w, file) ELSE w
        deleted == s.wipe /\ file \in w.images
    IN IF file \notin wiped.images
       THEN LET started == [wiped EXCEPT !.progress =
                                StartAsyncOperation(@, "create " \o s.name, s.size)]
                made == CreateImage(started, s, cb, create_ok, abort)
            IN IF ~made.ok
               THEN [w |-> made.w, status |-> INSTALL_ERROR_GENERIC,
                     deleted |-> deleted, created |-> FALSE]
               ELSE [w |-> [made.w EXCEPT !.progress = UpdateProgress(@, STATUS_COMPLETE, 0)],
                     status |-> INSTALL_OK, deleted |-> deleted, created |-> TRUE]
       ELSE [w |-> [wiped EXCEPT !.progress = UpdateProgress(@, STATUS_COMPLETE, 0)],
             status |-> INSTALL_OK, deleted |-> deleted, created |-> FALSE]

\* GsiInstaller::OpenPartition.  The image manager the device is mapped with
\* is a temporary of the call: it is destroyed when the call returns, and the
\* MappedDevice returned keeps a pointer to it.
OpenPartition(w, name, map_ok) ==
    [ ok |-> map_ok,
      w |-> IF map_ok THEN [w EXCEPT !.mapped = @ \cup {name}] ELSE w,
      manager |-> "destroyed" ]

\* GsiInstaller::Format: the device is mapped, its first 4K zeroed, and it is
\* unmapped again when the local MappedDevice goes out of scope.
Format(map_ok, dev_write_ok) == map_ok /\ dev_write_ok

StartInstall(w, s, stats, cb, create_ok, map_ok, dev_write_ok, abort) ==
    LET sanity == PerformSanityChecks(s, stats) IN
    IF sanity # INSTALL_OK THEN [w |-> w, s |-> s, status |-> sanity]
    ELSE LET pre == Preallocate(w, s, cb, create_ok, abort) IN
         IF pre.status # INSTALL_OK THEN [w |-> pre.w, s |-> s, status |-> pre.status]
         ELSE IF ~s.readOnly
              THEN IF ~Format(map_ok, dev_write_ok)
                   THEN [w |-> pre.w, s |-> s, status |-> INSTALL_ERROR_GENERIC]
                   ELSE [w |-> pre.w, s |-> [s EXCEPT !.succeeded = TRUE],
                         status |-> INSTALL_OK]
              ELSE LET device == OpenPartition(pre.w, GetBackingFile(s.name), map_ok) IN
                   IF ~device.ok
                   THEN [w |-> pre.w, s |-> s, status |-> INSTALL_ERROR_GENERIC]
                   ELSE [w |-> [device.w EXCEPT
                                  !.progress = UpdateProgress(@, STATUS_NO_OPERATION, 0)],
                         s |-> [s EXCEPT !.system_device = TRUE,
                                         !.device_manager = device.manager],
                         status |-> INSTALL_OK]

\* the same without the test against the room left in the image
CommitGsiChunkUnbounded(s, bytes, abort, dev_write_ok) ==
    IF bytes < 0 THEN [s |-> s, ok |-> FALSE, crash |-> FALSE]
    ELSE IF abort THEN [s |-> s, ok |-> FALSE, crash |-> FALSE]
    ELSE IF ~s.system_device THEN [s |-> s, ok |-> FALSE, crash |-> TRUE]
    ELSE IF ~dev_write_ok THEN [s |-> s, ok |-> FALSE, crash |-> FALSE]
    ELSE [s |-> [s EXCEPT !.gsi_bytes_written = @ + bytes], ok |-> TRUE, crash |-> FALSE]

\* GsiInstaller::CommitGsiChunk(const void*, size_t).  bytes is a size_t: a
\* negative length converts to a value above every image size.  Writing
\* through system_device_ when the session has none (a writable partition)
\* dereferences a null pointer.
CommitGsiChunk(s, bytes, abort, dev_write_ok) ==
    IF bytes < 0 \/ bytes > s.size - s.gsi_bytes_written
    THEN [s |-> s, ok |-> FALSE, crash |-> FALSE]
    ELSE IF abort THEN [s |-> s, ok |-> FALSE, crash |-> FALSE]
    ELSE IF ~s.system_device THEN [s |-> s, ok |-> FALSE, crash |-> TRUE]
    ELSE IF ~dev_write_ok THEN [s |-> s, ok |-> FALSE, crash |-> FALSE]
    ELSE [s |-> [s EXCEPT !.gsi_bytes_written = @ + bytes], ok |-> TRUE, crash |-> FALSE]

IsFinishedWriting(s) == s.gsi_bytes_written = s.size

\* the one_shot file is never written
SetBootModeUnarmed(w, one_shot_arg, io) ==
    IF w.one_shot /\ ~one_shot_arg
    THEN [w |-> [w EXCEPT !.one_shot = (io # "ok")], ok |-> io = "ok"]
    ELSE [w |-> w, ok |-> io = "ok" \/ ~one_shot_arg]

\* GsiService::SetBootMode
SetBootMode(w, one_shot_arg, io) ==
    IF one_shot_arg
    THEN [w |-> [w EXCEPT !.one_shot = WriteStringToFile(@, TRUE, FALSE, io)],
          ok |-> io = "ok"]
    ELSE IF w.one_shot
         THEN [w |-> [w EXCEPT !.one_shot = (io # "ok")], ok |-> io = "ok"]
         ELSE [w |-> w, ok |-> TRUE]

\* GsiService::CreateInstallStatusFile
CreateInstallStatusFile(w, io) ==
    [w |-> [w EXCEPT !.install_status = WriteStringToFile(@, "0", "absent", io)],
     ok |-> io = "ok"]

\* gsi_tool status: what the tool prints
Status == IF IsGsiRunning THEN "running"
          ELSE IF IsGsiInstalled THEN "installed" ELSE "normal"

\* --------------------------------------------------------- the boot status
\* libgsi, the revision that keeps the install_status file.
\* GetInstallStatus: the text of the install_status file, if it can be read
GetInstallStatus(w) == w.install_status # "absent"

\* GetBootAttempts: whether the status is a count of boot attempts
GetBootAttempts(boot_key) == boot_key = "0"

\* DisableGsi
DisableGsi(w, io) ==
    [w |-> [w EXCEPT !.install_status = WriteStringToFile(@, "disabled", "absent", io)],
     ok |-> io = "ok"]

\* UninstallGsi
UninstallGsi(w, io) ==
    [w |-> [w EXCEPT !.install_status = WriteStringToFile(@, "wipe", "absent", io)],
     ok |-> io = "ok"]

\* whether the boot goes into the installed image
CanBootIntoGsi(w) == w.install_status \in {"0", "ok"}

\* the status the boot leaves: with the one_shot file a status of "0" is
\* replaced by "disabled", which takes effect at the boot after this one
BootStatus(w) ==
    IF CanBootIntoGsi(w) /\ w.one_shot /\ GetBootAttempts(w.install_status)
    THEN "disabled" ELSE w.install_status

\* GsiService::GetInstalledImageDir
GetInstalledImageDir(w) ==
    IF w.install_dir_file.present THEN w.install_dir_file.text ELSE kDefaultDsuImageFolder

\* GsiService::GetActiveInstalledImageDir
GetActiveInstalledImageDir(w, s) ==
    IF s.live THEN s.install_dir ELSE GetInstalledImageDir(w)

\* no marker is ever found to read "OK"
IsInstallationNeverComplete(w, install_dir) == FALSE

\* GsiService::IsInstallationComplete
IsInstallationComplete(w, install_dir) == GetCompleteIndication(install_dir) \in w.complete

\* the files are removed and every image is kept
RemoveStatusFilesIn(w, install_dir, del_ok) ==
    [w |-> [w EXCEPT !.install_status = "absent",
                     !.one_shot = FALSE,
                     !.install_dir_file = AbsentFile,
                     !.complete = @ \ {GetCompleteIndication(install_dir)}],
     ok |-> TRUE]

\* GsiService::RemoveGsiFiles(const std::string&): every image whose name ends
\* in "_gsi" is unmapped and deleted, then the four files are removed.
\* del_ok is whether the image manager manages to delete an image; the result
\* is false when a deletion failed.
RemoveGsiFilesIn(w, install_dir, del_ok) ==
    LET gone == IF del_ok THEN ImagesToRemove(w.images, TRUE) ELSE {} IN
    [w |-> [w EXCEPT !.images = @ \ gone,
                     !.moved = @ \ gone,
                     !.mapped = @ \ ImagesToRemove(w.images, TRUE),
                     !.install_status = "absent",
                     !.one_shot = FALSE,
                     !.install_dir_file = AbsentFile,
                     !.complete = @ \ {GetCompleteIndication(install_dir)}],
     ok |-> ImagesToRemove(w.images, TRUE) \subseteq gone]

\* the same without the test for a live session
DisableGsiInstallAnyway(w, s, io) ==
    IF ~GetInstallStatus(w) THEN [w |-> w, ok |-> FALSE]
    ELSE DisableGsi(w, io)

\* GsiService::DisableGsiInstall
DisableGsiInstall(w, s, io) ==
    IF ~GetInstallStatus(w) THEN [w |-> w, ok |-> FALSE]
    ELSE IF s.live THEN [w |-> w, ok |-> FALSE]
    ELSE DisableGsi(w, io)

\* an installation without its complete marker is left as it is
KeepCorruptedInstallation(w, del_ok) == w

\* GsiService::CleanCorruptedInstallation
CleanCorruptedInstallation(w, del_ok) ==
    LET install_dir == GetInstalledImageDir(w) IN
    IF ~IsInstallationComplete(w, install_dir)
    THEN RemoveGsiFilesIn(w, install_dir, del_ok).w
    ELSE w

\* ------------------------------------------------------------- the service
\* every caller is let in
CheckAnyUid(uid, level) == TRUE

\* GsiService::CheckUid
CheckUid(uid, level) ==
    uid \in ({AID_ROOT, AID_SYSTEM} \cup (IF level = "SystemOrShell" THEN {AID_SHELL} ELSE {}))

\* what the device answers about a path under /mnt/media_rw/: the file system
\* is vfat or not, and verity on /system is check_at_most_once or not
ExternalStorage == {"vfat", "vfat_verity_once", "other"}

IsExternalStoragePath(path, ext) ==
    /\ Len(path.comps) >= 2
    /\ path.comps[1] = "mnt" /\ path.comps[2] = "media_rw"
    /\ (Len(path.comps) > 2 \/ path.slash)
    /\ ext # "other"

\* GsiService::ValidateInstallParams.  install_dir is passed by reference:
\* dir is what it holds when the function returns.
ValidateInstallParams(install_dir, ext) ==
    LET orig == IF install_dir = EmptyPath \/ install_dir = DataGsi
                THEN kDefaultDsuImageFolder ELSE install_dir
        real == Path(orig.comps, TRUE)
    IN IF orig.comps \notin ExistingDirs
       THEN [dir |-> orig, status |-> INSTALL_ERROR_GENERIC]
       ELSE IF IsExternalStoragePath(real, ext)
            THEN [dir |-> real,
                  status |-> IF ext = "vfat_verity_once" THEN INSTALL_ERROR_GENERIC
                             ELSE INSTALL_OK]
            ELSE IF real # kDefaultDsuImageFolder
                 THEN [dir |-> real, status |-> INSTALL_ERROR_GENERIC]
                 ELSE [dir |-> real, status |-> INSTALL_OK]

\* GsiService::SaveInstallation opens the install_dir file with O_TRUNC:
\* when the write fails after the open the file is left empty.
SaveInstallation(w, installation, io) ==
    [w |-> [w EXCEPT !.install_dir_file =
                CASE io = "ok" -> FileOf(installation)
                  [] io = "open_fail" -> @
                  [] OTHER -> FileOf(EmptyPath)],
     status |-> IF io = "ok" THEN INSTALL_OK ELSE INSTALL_ERROR_GENERIC]

\* The record of a call that returned: its name, the status or boolean it
\* returned, and what the caller passed and found: the one_shot argument, the
\* length asked for, the length of the chunk handed to the session when that
\* decided the result, whether a session was live, whether the live session was
\* short of its size, the session's directory, whether should_abort_ was
\* raised when the call was issued, whether a progress record that was read
\* mixes two updates, and for an enableGsi whether SetBootMode succeeded and
\* whether the install_status file was written, the caller's uid where the
\* handler is one that never asks for it, and for the startup tasks and the
\* calls on an installation what install_status read when they began and
\* whether the installed directory's complete marker read "OK" then, and for a
\* call that unwound a session whether the session was one that keeps the
\* userdata image (wipe_on_failure_ false), and for the start of a session
\* built from install parameters the wipe flag given, whether an image of the
\* partition existed, whether Preallocate deleted one and created one, and the
\* wipe_on_failure_ the constructor set.
Returned(op, status, ok) ==
    [ op |-> op, status |-> status, ok |-> ok, one_shot |-> FALSE, bytes |-> 0,
      chunk |-> 0, live |-> FALSE, short |-> FALSE, dir |-> EmptyPath, aborting |-> FALSE,
      torn |-> FALSE, mode_ok |-> FALSE, wrote |-> FALSE, uid |-> NoUid,
      was |-> "absent", marked |-> FALSE, kept |-> FALSE, wipe |-> FALSE,
      existed |-> FALSE, deleted |-> FALSE, created |-> FALSE,
      wipe_on_failure |-> FALSE, device_size |-> 0, zeroed |-> 0, past_end |-> FALSE,
      eio |-> FALSE ]

NoReading == [valid |-> FALSE, bytes_processed |-> 0, total_bytes |-> 0]

\* The commitGsiChunkFromStream call in flight: where it is, the length asked
\* for, the bytes still to read, the assignments to the progress record it
\* still has to make under progress_lock_ and where it goes on after them,
\* and the record before and after the update it is making.
IdleStream ==
    [ pc |-> "idle", bytes |-> 0, remaining |-> 0, todo |-> <<>>, next |-> "idle",
      pre |-> NoProgress, post |-> NoProgress, aborting |-> FALSE ]

\* The low 32 bits of floor((2^56 - x) / s) for 0 < x < 2^28 and 0 < s < 2^17,
\* as the digits <<bits 28..31, bits 14..27, bits 0..13>>: long division of
\* the dividend written in base 2^14, whose two high digits are 2^14 - 1 and
\* whose two low digits are those of 2^28 - x.
WrappedQuotient(x, s) ==
    LET B == 16384
        L == B * B - x
        r3 == (B - 1) % s
        t2 == r3 * B + (B - 1)
        t1 == (t2 % s) * B + (L \div B)
        t0 == (t1 % s) * B + (L % B)
    IN << (t2 \div s) % 16, t1 \div s, t0 \div s >>

\* Whether int new_progress = ((size_ - remaining) * 1000) / size_ differs
\* from progress, which stays -1.  The arithmetic is unsigned 64-bit and the
\* result is cut to 32 bits: with remaining <= size_ it is a permille in
\* 0..1000; with remaining > size_ the difference wraps, and in units of 256
\* bytes the quotient is floor((2^56 - 1000 * (remaining - size_)) / size_).
ProgressChanged(size, remaining) ==
    IF remaining <= size THEN TRUE
    ELSE WrappedQuotient(1000 * (remaining - size), size) # <<15, 16383, 16383>>

\* The singleton: sInstance is the instance the weak pointer names (0: none),
\* held the instance each client holds a strong reference to (0: none), dying
\* the instances whose last strong reference is gone and whose destructor
\* has not run yet, made the number of instances constructed, handed the
\* instance the last getClient returned, created whether that call
\* constructed it, and exited whether the last destructor ended the process.
NoGsid ==
    [ sInstance |-> 0, held |-> [c \in Clients |-> 0], dying |-> {}, made |-> 0,
      handed |-> 0, created |-> FALSE, exited |-> FALSE ]

\* the process is gone: no instance is left, the clients hold dead proxies,
\* and the next process starts with a null sInstance
ProcessGone(g, exited) ==
    [ NoGsid EXCEPT !.made = g.made, !.exited = exited ]

\* sInstance.promote(): the instance, or 0 when there is none or its last
\* strong reference is gone
Promote(g) == IF g.sInstance \in g.dying THEN 0 ELSE g.sInstance

\* every instance passes for the registered one
IsAnyInstance(g, this) == TRUE

\* sInstance == this
IsInstance(g, this) == g.sInstance = this

Init ==
    /\ install_dir_ = EmptyPath
    /\ installer_ = NoInstaller
    /\ should_abort_ = FALSE
    /\ progress_ = NoProgress
    /\ lock_ = "free"
    /\ progress_lock_ = "free"
    /\ install_status = "absent"
    /\ one_shot = FALSE
    /\ install_dir_file = AbsentFile
    /\ complete = {}
    /\ images = {}
    /\ mapped = {}
    /\ moved = {}
    /\ booted = FALSE
    /\ alive = 0
    /\ stream = IdleStream
    /\ cancel_pc = "idle"
    /\ reading = NoReading
    /\ last = Returned("none", NoStatus, FALSE)
    /\ gsid = NoGsid

\* GsiService::openInstall
openInstall(uid, install_dir, ext, io) ==
    /\ lock_ = "free"
    /\ UNCHANGED << installer_, should_abort_, progress_, lock_, progress_lock_,
                    install_status, one_shot, images, moved, mapped, booted, gsid, alive,
                    stream, cancel_pc, reading >>
    /\ IF ~CheckUid(uid, "System")
       THEN /\ last' = Returned("openInstall", EX_SECURITY, FALSE)
            /\ UNCHANGED << install_dir_, install_dir_file, complete >>
       ELSE IF IsGsiRunning
       THEN /\ last' = Returned("openInstall", INSTALL_ERROR_GENERIC, FALSE)
            /\ UNCHANGED << install_dir_, install_dir_file, complete >>
       ELSE LET v == ValidateInstallParams(install_dir, ext) IN
            /\ install_dir_' = v.dir
            /\ IF v.status # INSTALL_OK
               THEN /\ last' = Returned("openInstall", v.status, FALSE)
                    /\ UNCHANGED << install_dir_file, complete >>
               ELSE LET saved == SaveInstallation(World, v.dir, io) IN
                    /\ complete' = complete \ {GetCompleteIndication(v.dir)}
                    /\ install_dir_file' = saved.w.install_dir_file
                    /\ last' = Returned("openInstall", saved.status,
                                        saved.status = INSTALL_OK)

\* GsiService::createPartition.  cb, create_ok, map_ok and dev_write_ok are
\* what the image manager and the device do during the call; io is the
\* outcome of the constructor's write of the install_dir file.
createPartition(uid, name, size, readOnly, stats, cb, create_ok, map_ok, dev_write_ok, io) ==
    /\ lock_ = "free"
    /\ UNCHANGED << install_dir_, should_abort_, lock_, progress_lock_, booted, gsid,
                    stream, cancel_pc, reading >>
    /\ IF ~CheckUid(uid, "System")
       THEN /\ last' = Returned("createPartition", EX_SECURITY, FALSE)
            /\ UNCHANGED << installer_, progress_, files, alive >>
       ELSE IF install_dir_ = EmptyPath
       THEN /\ last' = Returned("createPartition", INSTALL_ERROR_GENERIC, FALSE)
            /\ UNCHANGED << installer_, progress_, files, alive >>
       ELSE LET cleaned == DestroyInstaller(World, installer_) IN
            IF size % LP_SECTOR_SIZE # 0
            THEN /\ installer_' = NoInstaller
                 /\ SetWorld(cleaned)
                 /\ last' = [Returned("createPartition", INSTALL_ERROR_GENERIC, FALSE)
                                EXCEPT !.live = installer_.live]
            ELSE LET made == NewInstaller(cleaned, install_dir_, name,
                                          IF size = 0 /\ name = "userdata"
                                          THEN kDefaultUserdataSize ELSE size,
                                          readOnly, FALSE)
                     noted == [cleaned EXCEPT
                                  !.alive = @ + 1,
                                  !.install_dir_file =
                                      WriteStringToFile(@, FileOf(install_dir_), AbsentFile, io)]
                     r == StartInstall(noted, made, stats, cb, create_ok, map_ok,
                                       dev_write_ok, should_abort_)
                 IN /\ last' = [Returned("createPartition", r.status, r.status = INSTALL_OK)
                                   EXCEPT !.live = installer_.live,
                                          !.aborting = should_abort_,
                                          !.kept = r.status # INSTALL_OK /\ KeepsUserdata(r.s)]
                    /\ IF r.status # INSTALL_OK
                       THEN /\ installer_' = NoInstaller
                            /\ SetWorld(DestroyInstaller(r.w, r.s))
                       ELSE /\ installer_' = r.s
                            /\ SetWorld(r.w)

\* whether the commit in flight has made its StartAsyncOperation
Started == stream.pc # "idle" /\ ~(stream.next = "check" /\ stream.pc \in {"update", "write"})

\* whether the progress record is in the middle of an update
Torn == stream.pc = "write" /\ progress_ \notin {stream.pre, stream.post}

\* the same with the guard on the service lock taken first
getInstallProgressLocked(uid) ==
    /\ lock_ = "free"
    /\ progress_lock_ = "free"
    /\ UNCHANGED << install_dir_, installer_, should_abort_, progress_, lock_,
                    progress_lock_, install_status, one_shot, install_dir_file,
                    complete, images, moved, mapped, booted, gsid, alive, stream, cancel_pc >>
    /\ IF ~CheckUid(uid, "System")
       THEN /\ last' = Returned("getInstallProgress", EX_SECURITY, FALSE)
            /\ UNCHANGED reading
       ELSE /\ last' = [Returned("getInstallProgress", NoStatus, TRUE)
                          EXCEPT !.torn = Torn]
            /\ reading' = IF Started
                          THEN [valid |-> TRUE, bytes_processed |-> progress_.bytes_processed,
                                total_bytes |-> progress_.total_bytes]
                          ELSE reading

\* GsiService::getInstallProgress
getInstallProgress(uid) ==
    /\ progress_lock_ = "free"
    /\ UNCHANGED << install_dir_, installer_, should_abort_, progress_, lock_,
                    progress_lock_, install_status, one_shot, install_dir_file,
                    complete, images, moved, mapped, booted, gsid, alive, stream, cancel_pc >>
    /\ IF ~CheckUid(uid, "System")
       THEN /\ last' = Returned("getInstallProgress", EX_SECURITY, FALSE)
            /\ UNCHANGED reading
       ELSE /\ last' = [Returned("getInstallProgress", NoStatus, TRUE)
                          EXCEPT !.torn = Torn]
            /\ reading' = IF Started
                          THEN [valid |-> TRUE, bytes_processed |-> progress_.bytes_processed,
                                total_bytes |-> progress_.total_bytes]
                          ELSE reading

\* The daemon dies on a null pointer dereference: every call in flight is
\* lost with the process and the next client finds a fresh service.  Files,
\* images and mapped devices stay as they are.
DaemonDied(op) ==
    /\ install_dir_' = EmptyPath
    /\ installer_' = NoInstaller
    /\ should_abort_' = FALSE
    /\ progress_' = NoProgress
    /\ lock_' = "free"
    /\ progress_lock_' = "free"
    /\ stream' = IdleStream
    /\ cancel_pc' = "idle"
    /\ reading' = NoReading
    /\ last' = Returned(op, DEAD_OBJECT, FALSE)
    /\ UNCHANGED << files, booted >>
    /\ alive' = 0
    /\ gsid' = ProcessGone(gsid, FALSE)

\* the same with the guard on lock_ never released
StreamReturnsLocked(ok, chunk) ==
    /\ lock_' = lock_
    /\ stream' = IdleStream
    /\ reading' = NoReading
    /\ last' = [Returned("commitGsiChunkFromStream", NoStatus, ok)
                  EXCEPT !.bytes = stream.bytes, !.chunk = chunk, !.live = TRUE,
                         !.aborting = stream.aborting]

\* commitGsiChunkFromStream returns: the guard on lock_ is released
StreamReturns(ok, chunk) ==
    /\ lock_' = "free"
    /\ stream' = IdleStream
    /\ reading' = NoReading
    /\ last' = [Returned("commitGsiChunkFromStream", NoStatus, ok)
                  EXCEPT !.bytes = stream.bytes, !.chunk = chunk, !.live = TRUE,
                         !.aborting = stream.aborting]

\* GsiService::commitGsiChunkFromStream up to the call of
\* GsiInstaller::CommitGsiChunk(int, int64_t), whose first statement is
\* StartAsyncOperation
StreamBegin(uid, bytes) ==
    /\ stream.pc = "idle"
    /\ lock_ = "free"
    /\ UNCHANGED << install_dir_, installer_, should_abort_, progress_, progress_lock_,
                    files, booted, gsid, alive, cancel_pc >>
    /\ IF ~CheckUid(uid, "System")
       THEN /\ last' = Returned("commitGsiChunkFromStream", EX_SECURITY, FALSE)
            /\ UNCHANGED << lock_, stream, reading >>
       ELSE IF ~installer_.live
       THEN /\ last' = [Returned("commitGsiChunkFromStream", NoStatus, FALSE)
                          EXCEPT !.bytes = bytes, !.aborting = should_abort_]
            /\ UNCHANGED << lock_, stream, reading >>
       ELSE /\ lock_' = "stream"
            /\ stream' = [IdleStream EXCEPT
                            !.pc = "update", !.bytes = bytes,
                            !.todo = StartAsyncOperationWrites("write " \o installer_.name,
                                                               installer_.size),
                            !.next = "check", !.aborting = should_abort_]
            /\ reading' = NoReading
            /\ UNCHANGED last

\* the same without the guard on progress_lock_
ProgressLockFree ==
    /\ stream.pc = "update"
    /\ stream' = [stream EXCEPT !.pc = "write", !.pre = progress_,
                                !.post = ApplyWrites(progress_, stream.todo)]
    /\ UNCHANGED << install_dir_, installer_, should_abort_, progress_, lock_,
                    progress_lock_, files, booted, gsid, alive, cancel_pc, reading, last >>

\* StartAsyncOperation / UpdateProgress: std::lock_guard guard(progress_lock_)
ProgressLock ==
    /\ stream.pc = "update"
    /\ progress_lock_ = "free"
    /\ progress_lock_' = "stream"
    /\ stream' = [stream EXCEPT !.pc = "write", !.pre = progress_,
                                !.post = ApplyWrites(progress_, stream.todo)]
    /\ UNCHANGED << install_dir_, installer_, should_abort_, progress_, lock_, files,
                    booted, gsid, alive, cancel_pc, reading, last >>

\* one assignment to a field of progress_; after the last one the guard is
\* released and the caller goes on
ProgressWrite ==
    /\ stream.pc = "write"
    /\ progress_' = ApplyWrite(progress_, Head(stream.todo))
    /\ IF Len(stream.todo) > 1
       THEN /\ stream' = [stream EXCEPT !.todo = Tail(@)]
            /\ UNCHANGED progress_lock_
       ELSE /\ stream' = [stream EXCEPT !.todo = <<>>, !.pc = stream.next]
            /\ progress_lock_' = "free"
    /\ UNCHANGED << install_dir_, installer_, should_abort_, lock_, files, booted, gsid, alive,
                    cancel_pc, reading, last >>

\* if (bytes < 0) return false; uint64_t remaining = bytes;
StreamCheck ==
    /\ stream.pc = "check"
    /\ UNCHANGED << install_dir_, installer_, should_abort_, progress_, progress_lock_,
                    files, booted, gsid, alive, cancel_pc >>
    /\ IF stream.bytes < 0
       THEN StreamReturns(FALSE, 0)
       ELSE /\ stream' = [stream EXCEPT !.pc = "loop", !.remaining = stream.bytes]
            /\ UNCHANGED << lock_, reading, last >>

\* what read() may return when asked for max_to_read bytes: an error, end of
\* stream, all of them, or half a block of a whole block
ReadResults(max_to_read) ==
    {0 - 1, 0, max_to_read} \cup (IF max_to_read = kBlockSize THEN {kBlockSize \div 2} ELSE {})

Min(a, b) == IF a < b THEN a ELSE b

\* one turn of the loop of GsiInstaller::CommitGsiChunk(int, int64_t)
StreamBlock(rv, dev_write_ok) ==
    /\ stream.pc = "loop"
    /\ stream.remaining > 0
    /\ rv \in ReadResults(Min(kBlockSize, stream.remaining))
    /\ LET c == CommitGsiChunk(installer_, rv, should_abort_, dev_write_ok)
           remaining == stream.remaining - rv
       IN IF rv <= 0
          THEN /\ StreamReturns(FALSE, 0)
               /\ UNCHANGED << install_dir_, installer_, should_abort_, progress_,
                               progress_lock_, files, booted, gsid, alive, cancel_pc >>
          ELSE IF c.crash THEN DaemonDied("commitGsiChunkFromStream")
          ELSE IF ~c.ok
          THEN /\ StreamReturns(FALSE, rv)
               /\ UNCHANGED << install_dir_, installer_, should_abort_, progress_,
                               progress_lock_, files, booted, gsid, alive, cancel_pc >>
          ELSE /\ installer_' = c.s
               /\ stream' = IF ProgressChanged(installer_.size, remaining)
                            THEN [stream EXCEPT
                                    !.remaining = remaining, !.pc = "update",
                                    !.todo = UpdateProgressWrites(STATUS_WORKING,
                                                 installer_.size - remaining),
                                    !.next = "loop"]
                            ELSE [stream EXCEPT !.remaining = remaining]
               /\ UNCHANGED << install_dir_, should_abort_, progress_, lock_,
                               progress_lock_, files, booted, gsid, alive, cancel_pc, reading, last >>

\* after the loop: UpdateProgress(STATUS_COMPLETE, size_)
StreamFinish ==
    /\ stream.pc = "loop"
    /\ stream.remaining = 0
    /\ stream' = [stream EXCEPT !.pc = "update",
                                !.todo = UpdateProgressWrites(STATUS_COMPLETE, installer_.size),
                                !.next = "return"]
    /\ UNCHANGED << install_dir_, installer_, should_abort_, progress_, lock_,
                    progress_lock_, files, booted, gsid, alive, cancel_pc, reading, last >>

\* return true;
StreamReturn ==
    /\ stream.pc = "return"
    /\ StreamReturns(TRUE, 0)
    /\ UNCHANGED << install_dir_, installer_, should_abort_, progress_, progress_lock_,
                    files, booted, gsid, alive, cancel_pc >>

\* a commit on the session returns, the session becoming s
CommitReturns(op, bytes, ok, s) ==
    /\ installer_' = s
    /\ last' = [Returned(op, NoStatus, ok)
                  EXCEPT !.bytes = bytes, !.chunk = bytes, !.live = installer_.live,
                         !.aborting = should_abort_]
    /\ UNCHANGED << install_dir_, should_abort_, progress_, lock_, progress_lock_,
                    files, booted, gsid, alive, stream, cancel_pc, reading >>

\* GsiInstaller::UnmapAshmem
UnmapAshmem(s) == [s EXCEPT !.ashmem_mapped = FALSE, !.ashmem_size = 0 - 1]

\* GsiService::commitGsiChunkFromAshmem and GsiInstaller::CommitGsiChunk(size_t).
\* The chunk is read from ashmem_data_ whatever ashmem_size_ is: a length
\* above it reads past the mapping, which faults or goes through.
commitGsiChunkFromAshmem(uid, bytes, dev_write_ok, fault) ==
    /\ lock_ = "free"
    /\ IF ~CheckUid(uid, "System")
       THEN /\ last' = Returned("commitGsiChunkFromAshmem", EX_SECURITY, FALSE)
            /\ UNCHANGED << install_dir_, installer_, should_abort_, progress_, lock_,
                            progress_lock_, files, booted, gsid, alive, stream, cancel_pc,
                            reading >>
       ELSE IF ~installer_.live \/ ~installer_.ashmem_mapped
       THEN CommitReturns("commitGsiChunkFromAshmem", bytes, FALSE, installer_)
       ELSE LET c == CommitGsiChunk(installer_, bytes, should_abort_, dev_write_ok)
                past == bytes > installer_.ashmem_size
                tried == ~(bytes < 0 \/ bytes > installer_.size - installer_.gsi_bytes_written)
                         /\ ~should_abort_
            IN IF c.crash \/ (tried /\ past /\ fault)
               THEN DaemonDied("commitGsiChunkFromAshmem")
               ELSE CommitReturns("commitGsiChunkFromAshmem", bytes, c.ok,
                                  IF c.ok /\ IsFinishedWriting(c.s)
                                  THEN UnmapAshmem(c.s) ELSE c.s)

\* GsiService::commitGsiChunkFromMemory: the chunk is a byte array
commitGsiChunkFromMemory(bytes, dev_write_ok) ==
    /\ lock_ = "free"
    /\ bytes >= 0
    /\ IF ~installer_.live
       THEN CommitReturns("commitGsiChunkFromMemory", bytes, FALSE, installer_)
       ELSE LET c == CommitGsiChunk(installer_, bytes, should_abort_, dev_write_ok) IN
            IF c.crash THEN DaemonDied("commitGsiChunkFromMemory")
            ELSE CommitReturns("commitGsiChunkFromMemory", bytes, c.ok, c.s)

\* GsiService::setGsiAshmem and GsiInstaller::MapAshmem.  The handler takes
\* no lock and checks no uid: uid is the caller's, which it never asks for.
\* mmap refuses a length of zero.
setGsiAshmem(uid, size, map_ok) ==
    /\ installer_' = IF ~installer_.live THEN installer_
                     ELSE [installer_ EXCEPT !.ashmem_size = size,
                                             !.ashmem_mapped = map_ok /\ size > 0]
    /\ last' = [Returned("setGsiAshmem", NoStatus,
                         installer_.live /\ map_ok /\ size > 0)
                  EXCEPT !.bytes = size, !.live = installer_.live, !.uid = uid]
    /\ UNCHANGED << install_dir_, should_abort_, progress_, lock_, progress_lock_,
                    files, booted, gsid, alive, stream, cancel_pc, reading >>

\* the same without the test for the "disabled" status
ReenableGsiAlways(w, one_shot_arg, io1, io2) ==
    IF w.install_status = "absent" THEN [w |-> w, status |-> INSTALL_ERROR_GENERIC]
    ELSE LET mode == SetBootMode(w, one_shot_arg, io1) IN
         IF ~mode.ok THEN [w |-> mode.w, status |-> INSTALL_ERROR_GENERIC]
         ELSE LET st == CreateInstallStatusFile(mode.w, io2) IN
              [w |-> st.w, status |-> IF st.ok THEN INSTALL_OK ELSE INSTALL_ERROR_GENERIC]

\* GsiService::ReenableGsi
ReenableGsi(w, one_shot_arg, io1, io2) ==
    IF w.install_status = "absent" THEN [w |-> w, status |-> INSTALL_ERROR_GENERIC]
    ELSE IF w.install_status # "disabled" THEN [w |-> w, status |-> INSTALL_ERROR_GENERIC]
    ELSE LET mode == SetBootMode(w, one_shot_arg, io1) IN
         IF ~mode.ok THEN [w |-> mode.w, status |-> INSTALL_ERROR_GENERIC]
         ELSE LET st == CreateInstallStatusFile(mode.w, io2) IN
              [w |-> st.w, status |-> IF st.ok THEN INSTALL_OK ELSE INSTALL_ERROR_GENERIC]

\* GsiService::enableGsi
enableGsi(uid, one_shot_arg, io1, io2) ==
    /\ lock_ = "free"
    /\ UNCHANGED << install_dir_, should_abort_, lock_, progress_lock_, booted, gsid,
                    stream, cancel_pc, reading >>
    /\ IF installer_.live
       THEN IF ~CheckUid(uid, "System")
            THEN /\ last' = Returned("enableGsi", EX_SECURITY, FALSE)
                 /\ UNCHANGED << installer_, progress_, files, alive >>
            ELSE LET cleaned == DestroyInstaller(World, installer_)
                     mode == SetBootMode(cleaned, one_shot_arg, io1)
                     st == CreateInstallStatusFile(mode.w, io2)
                     ok == mode.ok /\ st.ok
                 IN /\ installer_' = NoInstaller
                    /\ SetWorld(IF mode.ok THEN st.w ELSE mode.w)
                    /\ last' = [Returned("enableGsi",
                                         IF ok THEN INSTALL_OK ELSE INSTALL_ERROR_GENERIC, ok)
                                  EXCEPT !.one_shot = one_shot_arg, !.live = TRUE,
                                         !.short = ~IsFinishedWriting(installer_),
                                         !.dir = installer_.install_dir,
                                         !.mode_ok = mode.ok, !.wrote = ok]
       ELSE IF ~CheckUid(uid, "SystemOrShell")
            THEN /\ last' = Returned("enableGsi", EX_SECURITY, FALSE)
                 /\ UNCHANGED << installer_, progress_, files, alive >>
            ELSE LET r == ReenableGsi(World, one_shot_arg, io1, io2) IN
                 /\ installer_' = NoInstaller
                 /\ SetWorld(r.w)
                 /\ last' = [Returned("enableGsi", r.status, r.status = INSTALL_OK)
                               EXCEPT !.one_shot = one_shot_arg]

\* the same without raising should_abort_
CancelBeginSilent(uid) ==
    /\ cancel_pc = "idle"
    /\ IF ~CheckUid(uid, "System")
       THEN /\ last' = Returned("cancelGsiInstall", EX_SECURITY, FALSE)
            /\ UNCHANGED cancel_pc
       ELSE /\ cancel_pc' = "wait"
            /\ UNCHANGED last
    /\ UNCHANGED << install_dir_, installer_, should_abort_, progress_, lock_,
                    progress_lock_, files, booted, gsid, alive, stream, reading >>

\* GsiService::cancelGsiInstall: should_abort_ = true, before the lock
CancelBegin(uid) ==
    /\ cancel_pc = "idle"
    /\ IF ~CheckUid(uid, "System")
       THEN /\ last' = Returned("cancelGsiInstall", EX_SECURITY, FALSE)
            /\ UNCHANGED << should_abort_, cancel_pc >>
       ELSE /\ should_abort_' = TRUE
            /\ cancel_pc' = "wait"
            /\ UNCHANGED last
    /\ UNCHANGED << install_dir_, installer_, progress_, lock_, progress_lock_, files,
                    booted, gsid, alive, stream, reading >>

\* GsiService::cancelGsiInstall entered by a second caller while the first
\* one waits for the lock
CancelBeginConcurrent(uid) ==
    /\ cancel_pc = "wait"
    /\ IF ~CheckUid(uid, "System")
       THEN /\ last' = Returned("cancelGsiInstall", EX_SECURITY, FALSE)
            /\ UNCHANGED << should_abort_, cancel_pc >>
       ELSE /\ should_abort_' = TRUE
            /\ cancel_pc' = "wait2"
            /\ UNCHANGED last
    /\ UNCHANGED << install_dir_, installer_, progress_, lock_, progress_lock_, files,
                    booted, gsid, alive, stream, reading >>

\* the same without should_abort_ = false
CancelFinishKeepsFlag ==
    /\ cancel_pc \in {"wait", "wait2"}
    /\ lock_ = "free"
    /\ installer_' = NoInstaller
    /\ SetWorld(DestroyInstaller(World, installer_))
    /\ cancel_pc' = IF cancel_pc = "wait2" THEN "wait" ELSE "idle"
    /\ last' = [Returned("cancelGsiInstall", NoStatus, TRUE)
                  EXCEPT !.live = installer_.live, !.kept = KeepsUserdata(installer_)]
    /\ UNCHANGED << install_dir_, should_abort_, lock_, progress_lock_, booted, gsid,
                    stream, reading >>

\* GsiService::cancelGsiInstall once it holds the lock: of the callers that
\* wait (one, or two with cancel_pc "wait2") one goes on and returns
CancelFinish ==
    /\ cancel_pc \in {"wait", "wait2"}
    /\ lock_ = "free"
    /\ should_abort_' = FALSE
    /\ installer_' = NoInstaller
    /\ SetWorld(DestroyInstaller(World, installer_))
    /\ cancel_pc' = IF cancel_pc = "wait2" THEN "wait" ELSE "idle"
    /\ last' = [Returned("cancelGsiInstall", NoStatus, TRUE)
                  EXCEPT !.live = installer_.live, !.kept = KeepsUserdata(installer_)]
    /\ UNCHANGED << install_dir_, lock_, progress_lock_, booted, gsid, stream, reading >>

\* GsiService::closeInstall.  The status is INSTALL_OK also when the write
\* of the complete marker failed: the error is overwritten before returning.
closeInstall(uid, io) ==
    /\ lock_ = "free"
    /\ UNCHANGED << installer_, should_abort_, progress_, lock_, progress_lock_,
                    install_status, one_shot, install_dir_file, images, moved, mapped,
                    booted, gsid, alive, stream, cancel_pc, reading >>
    /\ IF ~CheckUid(uid, "System")
       THEN /\ last' = Returned("closeInstall", EX_SECURITY, FALSE)
            /\ UNCHANGED << install_dir_, complete >>
       ELSE LET file == GetCompleteIndication(install_dir_) IN
            /\ complete' = CASE io = "ok" -> complete \cup {file}
                             [] io = "open_fail" -> complete
                             [] OTHER -> complete \ {file}
            /\ install_dir_' = EmptyPath
            /\ last' = [Returned("closeInstall", INSTALL_OK, TRUE)
                          EXCEPT !.dir = install_dir_, !.wrote = (io = "ok")]

\* GsiService::removeGsi
removeGsi(uid, del_ok, io) ==
    /\ lock_ = "free"
    /\ UNCHANGED << install_dir_, installer_, should_abort_, lock_, progress_lock_,
                    booted, gsid, stream, cancel_pc, reading >>
    /\ IF ~CheckUid(uid, "SystemOrShell")
       THEN /\ last' = Returned("removeGsi", EX_SECURITY, FALSE)
            /\ UNCHANGED << progress_, files, alive >>
       ELSE LET install_dir == GetActiveInstalledImageDir(World, installer_)
                r == IF IsGsiRunning THEN UninstallGsi(World, io)
                     ELSE RemoveGsiFilesIn(World, install_dir, del_ok)
            IN /\ SetWorld(r.w)
               /\ last' = [Returned("removeGsi", NoStatus, r.ok)
                             EXCEPT !.live = installer_.live, !.dir = install_dir,
                                    !.was = install_status]

\* GsiService::disableGsi
disableGsi(uid, io) ==
    /\ lock_ = "free"
    /\ UNCHANGED << install_dir_, installer_, should_abort_, lock_, progress_lock_,
                    booted, gsid, stream, cancel_pc, reading >>
    /\ IF ~CheckUid(uid, "SystemOrShell")
       THEN /\ last' = Returned("disableGsi", EX_SECURITY, FALSE)
            /\ UNCHANGED << progress_, files, alive >>
       ELSE LET r == DisableGsiInstall(World, installer_, io) IN
            /\ SetWorld(r.w)
            /\ last' = [Returned("disableGsi", NoStatus, r.ok)
                          EXCEPT !.live = installer_.live, !.was = install_status]

\* The device restarts.  The daemon's process is gone with everything it
\* held in memory, and no image is mapped.  The boot then goes into the
\* installed image or into the original system, and the booted indicator
\* exists in the first case only.
Reboot ==
    /\ last.op # "Reboot"
    /\ install_dir_' = EmptyPath
    /\ installer_' = NoInstaller
    /\ should_abort_' = FALSE
    /\ progress_' = NoProgress
    /\ lock_' = "free"
    /\ progress_lock_' = "free"
    /\ stream' = IdleStream
    /\ cancel_pc' = "idle"
    /\ reading' = NoReading
    /\ alive' = 0
    /\ mapped' = {}
    /\ booted' = CanBootIntoGsi(World)
    /\ install_status' = BootStatus(World)
    /\ gsid' = ProcessGone(gsid, FALSE)
    /\ last' = [Returned("Reboot", NoStatus, CanBootIntoGsi(World))
                  EXCEPT !.one_shot = one_shot, !.was = install_status]
    /\ UNCHANGED << one_shot, install_dir_file, complete, images, moved >>

\* GsiService::RunStartupTasks, which init runs once after each boot.  It
\* returns nothing: the record says whether every deletion it tried worked
\* and whether a write of install_status works.
RunStartupTasks(del_ok, io) ==
    /\ last.op = "Reboot"
    /\ LET cleaned == CleanCorruptedInstallation(World, del_ok)
           boot_key == cleaned.install_status
       IN SetWorld(IF ~GetInstallStatus(cleaned) THEN cleaned
                   ELSE IF ~IsGsiRunning
                   THEN IF boot_key = "wipe"
                        THEN RemoveGsiFilesIn(cleaned, GetInstalledImageDir(cleaned), del_ok).w
                        ELSE cleaned
                   ELSE IF GetBootAttempts(boot_key)
                   THEN [cleaned EXCEPT !.install_status =
                                    WriteStringToFile(@, "ok", "absent", io)]
                   ELSE cleaned)
    /\ last' = [Returned("RunStartupTasks", NoStatus,
                         del_ok \/ ImagesToRemove(images, TRUE) = {})
                  EXCEPT !.one_shot = one_shot, !.was = install_status,
                         !.marked = GetCompleteIndication(GetInstalledImageDir(World))
                                       \in complete,
                         !.wrote = (io = "ok")]
    /\ UNCHANGED << install_dir_, installer_, should_abort_, lock_, progress_lock_,
                    booted, gsid, stream, cancel_pc, reading >>

\* Gsid::getClient and GsiService::Get, for a client that holds no instance.
\* A new instance starts with the members its constructor gives it.
getClient(c) ==
    /\ lock_ = "free"
    /\ gsid.held[c] = 0
    /\ LET service == Promote(gsid) IN
       IF service # 0
       THEN /\ gsid' = [gsid EXCEPT !.held[c] = service, !.handed = service,
                                    !.created = FALSE, !.exited = FALSE]
            /\ UNCHANGED << install_dir_, installer_, should_abort_, progress_ >>
       ELSE /\ gsid.made < MaxInstances
            /\ gsid' = [gsid EXCEPT !.sInstance = gsid.made + 1,
                                    !.held[c] = gsid.made + 1,
                                    !.made = gsid.made + 1,
                                    !.handed = gsid.made + 1,
                                    !.created = TRUE, !.exited = FALSE]
            /\ install_dir_' = EmptyPath
            /\ installer_' = NoInstaller
            /\ should_abort_' = FALSE
            /\ progress_' = NoProgress
    /\ last' = Returned("getClient", NoStatus, TRUE)
    /\ UNCHANGED << lock_, progress_lock_, files, booted, alive, stream, cancel_pc,
                    reading >>

\* A client drops the instance it holds.  When it was the last one to hold
\* it the strong count reaches zero and the instance is deleted: its
\* destructor runs once it gets the lock.
dropClient(c) ==
    /\ gsid.held[c] # 0
    /\ LET i == gsid.held[c]
           others == { d \in Clients \ {c} : gsid.held[d] = i }
       IN gsid' = [gsid EXCEPT !.held[c] = 0,
                               !.dying = IF others = {} THEN @ \cup {i} ELSE @,
                               !.exited = FALSE]
    /\ UNCHANGED << install_dir_, installer_, should_abort_, progress_, lock_,
                    progress_lock_, files, booted, alive, stream, cancel_pc, reading,
                    last >>

\* GsiService::~GsiService.  exit(0) ends the process with everything it
\* holds in memory; files, images and mapped devices stay as they are.
DestroyService(this) ==
    /\ this \in gsid.dying
    /\ lock_ = "free"
    /\ IF IsInstance(gsid, this)
       THEN /\ gsid' = ProcessGone(gsid, TRUE)
            /\ install_dir_' = EmptyPath
            /\ installer_' = NoInstaller
            /\ should_abort_' = FALSE
            /\ progress_' = NoProgress
            /\ progress_lock_' = "free"
            /\ stream' = IdleStream
            /\ cancel_pc' = "idle"
            /\ reading' = NoReading
            /\ alive' = 0
       ELSE /\ gsid' = [gsid EXCEPT !.dying = @ \ {this}, !.exited = FALSE]
            /\ UNCHANGED << install_dir_, installer_, should_abort_, progress_,
                            progress_lock_, stream, cancel_pc, reading, alive >>
    /\ last' = Returned("~GsiService", NoStatus, TRUE)
    /\ UNCHANGED << lock_, files, booted >>

\* A session built from install parameters that carry a wipe flag, and
\* started: GsiInstaller::GsiInstaller(service, params) and StartInstall.  The
\* service keeps the session when StartInstall returns INSTALL_OK and destroys
\* it otherwise, as createPartition does; a session it held before is
\* destroyed first.
beginGsiInstall(install_dir, name, size, readOnly, wipe, stats, cb, create_ok, map_ok, dev_write_ok, io) ==
    /\ lock_ = "free"
    /\ UNCHANGED << install_dir_, should_abort_, lock_, progress_lock_, booted, gsid,
                    stream, cancel_pc, reading >>
    /\ LET cleaned == DestroyInstaller(World, installer_)
           made == NewInstaller(cleaned, install_dir, name, size, readOnly, wipe)
           noted == [cleaned EXCEPT
                        !.alive = @ + 1,
                        !.install_dir_file =
                            WriteStringToFile(@, FileOf(install_dir), AbsentFile, io)]
           ran == PerformSanityChecks(made, stats) = INSTALL_OK
           pre == Preallocate(noted, made, cb, create_ok, should_abort_)
           r == StartInstall(noted, made, stats, cb, create_ok, map_ok, dev_write_ok,
                             should_abort_)
       IN /\ last' = [Returned("beginGsiInstall", r.status, r.status = INSTALL_OK)
                         EXCEPT !.live = ran,
                                !.kept = r.status # INSTALL_OK /\ KeepsUserdata(r.s),
                                !.wipe = wipe,
                                !.existed = GetBackingFile(name) \in cleaned.images,
                                !.deleted = ran /\ pre.deleted,
                                !.created = ran /\ pre.created,
                                !.wipe_on_failure = made.wipe_on_failure]
          /\ IF r.status # INSTALL_OK
             THEN /\ installer_' = NoInstaller
                  /\ SetWorld(DestroyInstaller(r.w, r.s))
             ELSE /\ installer_' = r.s
                  /\ SetWorld(r.w)

\* The host file system moves the blocks of a backing file (a
\* defragmentation): the extents its metadata records are no longer the
\* file's.
MoveExtents(image) ==
    /\ image \in images \ moved
    /\ moved' = moved \cup {image}
    /\ UNCHANGED << install_dir_, installer_, should_abort_, progress_, lock_,
                    progress_lock_, install_status, one_shot, install_dir_file, complete,
                    images, mapped, booted, gsid, alive, stream, cancel_pc, reading,
                    last >>

\* the bytes WipeWritable erases at most, and the bytes it writes at a time
kEraseSize == Bytes(1024 * 1024)
kZeroesSize == Bytes(4096)

\* The loop of GsiInstaller::WipeWritable: one pass for every i from 0 in
\* steps of the size of zeroes while i < erase_size, ended by the first pass
\* whose write fails.  Every pass writes the whole of zeroes at the file
\* position, which is i.  A write that does not fit the device fills it to
\* its end and fails with ENOSPC; eio_at is the offset at which the device
\* answers an I/O error, if it does.
WipeLoop(erase_size, device_size, eio_at) ==
    LET passes == { i \in { k * kZeroesSize : k \in 0..(erase_size \div kZeroesSize) } :
                      i < erase_size }
        failing == { i \in passes : i = eio_at \/ i + kZeroesSize > device_size }
        first == CHOOSE i \in failing : \A j \in failing : i <= j
    IN IF failing = {}
       THEN [status |-> INSTALL_OK, zeroed |-> Cardinality(passes) * kZeroesSize,
             past_end |-> FALSE, eio |-> FALSE]
       ELSE IF first = eio_at
       THEN [status |-> INSTALL_ERROR_GENERIC, zeroed |-> first, past_end |-> FALSE,
             eio |-> TRUE]
       ELSE [status |-> INSTALL_ERROR_GENERIC, zeroed |-> device_size, past_end |-> TRUE,
             eio |-> FALSE]

\* GsiInstaller::WipeWritable.  The device is a local of the call: it is
\* unmapped when the call returns, so the image store is as before.  An image
\* that does not exist, or that a session has mapped, is not mapped again.
WipeWritable(w, name, map_ok, device_size, eio_at) ==
    LET image == GetBackingFile(name)
        device == OpenPartition(w, image, map_ok /\ image \in w.images
                                                 /\ image \notin w.mapped)
    IN IF ~device.ok
       THEN [status |-> INSTALL_ERROR_GENERIC, zeroed |-> 0, past_end |-> FALSE,
             eio |-> FALSE, opened |-> FALSE]
       ELSE LET r == WipeLoop(Min(kEraseSize, device_size), device_size, eio_at)
            IN [status |-> r.status, zeroed |-> r.zeroed, past_end |-> r.past_end,
                eio |-> r.eio, opened |-> TRUE]

\* GsiService::zeroPartition
zeroPartition(uid, name, map_ok, device_size, eio_at) ==
    /\ lock_ = "free"
    /\ UNCHANGED << install_dir_, installer_, should_abort_, progress_, lock_,
                    progress_lock_, files, booted, gsid, alive, stream, cancel_pc,
                    reading >>
    /\ IF ~CheckUid(uid, "SystemOrShell")
       THEN last' = Returned("zeroPartition", EX_SECURITY, FALSE)
       ELSE IF IsGsiRunning \/ ~IsGsiInstalled
       THEN last' = [Returned("zeroPartition", INSTALL_ERROR_GENERIC, FALSE)
                       EXCEPT !.live = installer_.live, !.was = install_status,
                              !.uid = uid]
       ELSE LET r == WipeWritable(World, name, map_ok, device_size, eio_at) IN
            last' = [Returned("zeroPartition", r.status, r.opened)
                       EXCEPT !.live = installer_.live, !.was = install_status,
                              !.uid = uid,
                              !.dir = GetActiveInstalledImageDir(World, installer_),
                              !.device_size = device_size, !.zeroed = r.zeroed,
                              !.past_end = r.past_end, !.eio = r.eio]

\* ----------------------------------------------------------- specifications
\* the directory opened: the default one
Dirs == {EmptyPath}
\* lengths of the shared buffer a client hands over
AshmemSizes == {0, kBlockSize}
\* what the device does during a createPartition of an installation
FlowEnvs ==
    { GoodEnv, [GoodEnv EXCEPT !.stats = [free |-> 2 * kBlockSize, total |-> 4 * kBlockSize]],
      [GoodEnv EXCEPT !.create_ok = FALSE], [GoodEnv EXCEPT !.map_ok = FALSE],
      [GoodEnv EXCEPT !.io = "write_fail"], [GoodEnv EXCEPT !.cb = kBlockSize] }

\* the partitions of an installation: a writable userdata, of the default
\* size or a given one, and a streamed system, also with sizes that are refused
Partitions ==
    { [name |-> "userdata", readOnly |-> FALSE, size |-> z] : z \in {0} \cup BlockSizes }
    \cup { [name |-> "system", readOnly |-> TRUE, size |-> z] : z \in Sizes \ {0} }
\* the outcomes of the two file writes of an enable: at most one fails
IoPairs == { <<"ok", "ok">> } \cup { <<o, "ok">> : o \in IoOutcomes }
           \cup { <<"ok", o>> : o \in IoOutcomes }

\* An installation from open to enable or cancel, the chunks handed over as
\* byte arrays.
Next ==
    \/ \E uid \in {AID_SYSTEM, AID_APP}, d \in Dirs, io \in IoOutcomes :
          openInstall(uid, d, "other", io)
    \/ \E uid \in {AID_SYSTEM}, p \in Partitions, e \in FlowEnvs :
          createPartition(uid, p.name, p.size, p.readOnly, e.stats, e.cb, e.create_ok,
                          e.map_ok, e.dev_write_ok, e.io)
    \/ \E dev_write_ok \in BOOLEAN : commitGsiChunkFromMemory(kBlockSize, dev_write_ok)
    \/ \E uid \in {AID_SYSTEM, AID_SHELL}, one_shot_arg \in BOOLEAN, io \in IoPairs :
          enableGsi(uid, one_shot_arg, io[1], io[2])
    \/ \E uid \in {AID_SYSTEM} : CancelBegin(uid)
    \/ CancelFinish

Spec == Init /\ [][Next]_vars

\* the partitions streamed to: a system image of one to MaxBlocks blocks
Streamed == { [name |-> "system", readOnly |-> TRUE, size |-> z] : z \in BlockSizes }

\* The streaming of one partition, with a client that polls the progress and
\* one that cancels; chunks are also handed over as byte arrays and through
\* the shared buffer.
NextStream ==
    \/ openInstall(AID_SYSTEM, EmptyPath, "other", "ok")
    \/ \E p \in Streamed :
          createPartition(AID_SYSTEM, p.name, p.size, p.readOnly, GoodEnv.stats, GoodEnv.cb,
                          GoodEnv.create_ok, GoodEnv.map_ok, GoodEnv.dev_write_ok, GoodEnv.io)
    \/ \E uid \in {AID_SYSTEM}, bytes \in ChunkBytes : StreamBegin(uid, bytes)
    \/ ProgressLock
    \/ ProgressWrite
    \/ StreamCheck
    \/ \E rv \in {0 - 1, 0, kBlockSize \div 2, kBlockSize}, dev_write_ok \in BOOLEAN :
          StreamBlock(rv, dev_write_ok)
    \/ StreamFinish
    \/ StreamReturn
    \/ \E uid \in {AID_SYSTEM} : getInstallProgress(uid)
    \/ \E bytes \in {0, kBlockSize} : commitGsiChunkFromMemory(bytes, TRUE)
    \/ \E bytes \in {0, kBlockSize} :
          commitGsiChunkFromAshmem(AID_SYSTEM, bytes, TRUE, FALSE)
    \/ \E uid \in {AID_SYSTEM, AID_APP} : setGsiAshmem(uid, kBlockSize, TRUE)
    \/ CancelBegin(AID_SYSTEM)
    \/ CancelFinish

SpecStream == Init /\ [][NextStream]_vars

\* The chunks of one partition committed from a stream, from the shared
\* buffer and from byte arrays.
NextCommit ==
    \/ openInstall(AID_SYSTEM, EmptyPath, "other", "ok")
    \/ \E p \in Streamed \cup {[name |-> "userdata", readOnly |-> FALSE, size |-> kBlockSize]} :
          createPartition(AID_SYSTEM, p.name, p.size, p.readOnly, GoodEnv.stats, GoodEnv.cb,
                          GoodEnv.create_ok, GoodEnv.map_ok, GoodEnv.dev_write_ok, GoodEnv.io)
    \/ \E bytes \in {kBlockSize, MaxChunkBlocks * kBlockSize} : StreamBegin(AID_SYSTEM, bytes)
    \/ ProgressLock
    \/ ProgressWrite
    \/ StreamCheck
    \/ \E rv \in {0 - 1, 0, kBlockSize \div 2, kBlockSize}, dev_write_ok \in BOOLEAN :
          StreamBlock(rv, dev_write_ok)
    \/ StreamFinish
    \/ StreamReturn
    \/ \E uid \in {AID_SYSTEM}, bytes \in ChunkBytes, dev_write_ok \in BOOLEAN,
          fault \in BOOLEAN :
          commitGsiChunkFromAshmem(uid, bytes, dev_write_ok, fault)
    \/ \E bytes \in ChunkBytes, dev_write_ok \in BOOLEAN :
          commitGsiChunkFromMemory(bytes, dev_write_ok)
    \/ \E size \in AshmemSizes : setGsiAshmem(AID_SYSTEM, size, TRUE)

SpecCommit == Init /\ [][NextCommit]_vars

\* the partitions of an installation that is booted later: a writable
\* userdata and a streamed system of one block
Installed == { [name |-> "userdata", readOnly |-> FALSE, size |-> kBlockSize],
               [name |-> "system", readOnly |-> TRUE, size |-> kBlockSize] }

\* the client's calls wait until the startup tasks of the boot have run
Up == last.op # "Reboot"

\* An installation, the calls that enable, disable and remove it, and the
\* boots of the device with the startup tasks that follow each of them.
NextBoot ==
    \/ \E uid \in {AID_SYSTEM, AID_SHELL, AID_APP}, io \in IoOutcomes :
          Up /\ openInstall(uid, EmptyPath, "other", io)
    \/ \E p \in Installed :
          Up /\ createPartition(AID_SYSTEM, p.name, p.size, p.readOnly, GoodEnv.stats,
                                GoodEnv.cb, GoodEnv.create_ok, GoodEnv.map_ok,
                                GoodEnv.dev_write_ok, GoodEnv.io)
    \/ Up /\ commitGsiChunkFromMemory(kBlockSize, TRUE)
    \/ \E uid \in {AID_SYSTEM, AID_APP}, io \in IoOutcomes : Up /\ closeInstall(uid, io)
    \/ \E uid \in {AID_SYSTEM, AID_SHELL, AID_APP}, one_shot_arg \in BOOLEAN, io \in IoPairs :
          Up /\ enableGsi(uid, one_shot_arg, io[1], io[2])
    \/ \E uid \in {AID_SHELL, AID_APP}, io \in IoOutcomes : Up /\ disableGsi(uid, io)
    \/ \E uid \in {AID_SHELL, AID_APP}, del_ok \in BOOLEAN, io \in IoOutcomes :
          Up /\ removeGsi(uid, del_ok, io)
    \/ Reboot
    \/ \E del_ok \in BOOLEAN, io \in IoOutcomes : RunStartupTasks(del_ok, io)

SpecBoot == Init /\ [][NextBoot]_vars

\* what statvfs answers for the install directory: plenty of room; free bytes
\* one unit short of a block, exactly a block and one unit above it on a file
\* system that is half empty; 30% free with room for every image but the
\* largest
SpaceStats ==
    { GoodEnv.stats,
      [free |-> kBlockSize - 1, total |-> 2 * kBlockSize],
      [free |-> kBlockSize, total |-> 2 * kBlockSize],
      [free |-> kBlockSize + 1, total |-> 2 * kBlockSize],
      [free |-> 12 * MaxBlocks, total |-> 40 * MaxBlocks] }

\* the partitions asked for in a directory: a writable userdata of one block,
\* a streamed system of one to MaxBlocks blocks or of a size that is not a
\* multiple of the sector size
DirPartitions ==
    { [name |-> "userdata", readOnly |-> FALSE, size |-> kBlockSize] }
    \cup { [name |-> "system", readOnly |-> TRUE, size |-> z] : z \in BlockSizes \cup {1} }

\* Installations into the directories a client may name, on hosts with more
\* or less room, written to and cancelled.
NextDir ==
    \/ \E d \in InstallDirInputs, ext \in ExternalStorage :
          openInstall(AID_SYSTEM, d, ext, "ok")
    \/ \E p \in DirPartitions, stats \in SpaceStats :
          createPartition(AID_SYSTEM, p.name, p.size, p.readOnly, stats, GoodEnv.cb,
                          GoodEnv.create_ok, GoodEnv.map_ok, GoodEnv.dev_write_ok,
                          GoodEnv.io)
    \/ commitGsiChunkFromMemory(kBlockSize, TRUE)
    \/ CancelBegin(AID_SYSTEM)
    \/ CancelFinish

SpecDir == Init /\ [][NextDir]_vars

\* what the device does during a createPartition whose session may fail:
\* everything works, or the image cannot be mapped
UnwindEnvs == { GoodEnv, [GoodEnv EXCEPT !.map_ok = FALSE] }

\* Installations that are closed, cancelled or cut short by a restart of the
\* device, and the installations made over the images they left.
NextUnwind ==
    \/ Up /\ openInstall(AID_SYSTEM, EmptyPath, "other", "ok")
    \/ \E p \in Installed, e \in UnwindEnvs :
          Up /\ createPartition(AID_SYSTEM, p.name, p.size, p.readOnly, e.stats, e.cb,
                                e.create_ok, e.map_ok, e.dev_write_ok, e.io)
    \/ Up /\ closeInstall(AID_SYSTEM, "ok")
    \/ Up /\ CancelBegin(AID_SYSTEM)
    \/ Up /\ CancelFinish
    \/ Reboot
    \/ \E del_ok \in BOOLEAN : RunStartupTasks(del_ok, "ok")

SpecUnwind == Init /\ [][NextUnwind]_vars

\* Clients that acquire the service and drop it, and the destructors of the
\* instances nobody holds any more.
NextClient ==
    \/ \E c \in Clients : getClient(c)
    \/ \E c \in Clients : dropClient(c)
    \/ \E this \in 1..MaxInstances : DestroyService(this)

SpecClient == Init /\ [][NextClient]_vars

\* the install parameters of a session: a partition, and whether its image
\* is wiped first
WipeParams ==
    { [name |-> p.name, readOnly |-> p.readOnly, size |-> p.size, wipe |-> wipe] :
        p \in Installed, wipe \in BOOLEAN }

\* what the device does during the start of such a session: everything works,
\* the image cannot be created, or it cannot be mapped
WipeEnvs == { GoodEnv, [GoodEnv EXCEPT !.create_ok = FALSE],
              [GoodEnv EXCEPT !.map_ok = FALSE],
              [GoodEnv EXCEPT !.stats = [free |-> kBlockSize, total |-> 2 * kBlockSize]] }

\* Sessions started over the images earlier sessions left, with and without
\* a wipe, written to and cancelled.
NextWipe ==
    \/ \E p \in WipeParams, e \in WipeEnvs :
          beginGsiInstall(kDefaultDsuImageFolder, p.name, p.size, p.readOnly, p.wipe,
                          e.stats, e.cb, e.create_ok, e.map_ok, e.dev_write_ok, e.io)
    \/ commitGsiChunkFromMemory(kBlockSize, TRUE)
    \/ CancelBegin(AID_SYSTEM)
    \/ CancelFinish

SpecWipe == Init /\ [][NextWipe]_vars

\* Installations that are enabled or cancelled on a host whose file system
\* may move the blocks of the backing files.
NextPin ==
    \/ openInstall(AID_SYSTEM, EmptyPath, "other", "ok")
    \/ \E p \in Installed :
          createPartition(AID_SYSTEM, p.name, p.size, p.readOnly, GoodEnv.stats, GoodEnv.cb,
                          GoodEnv.create_ok, GoodEnv.map_ok, GoodEnv.dev_write_ok, GoodEnv.io)
    \/ commitGsiChunkFromMemory(kBlockSize, TRUE)
    \/ \E one_shot_arg \in BOOLEAN, io \in IoPairs :
          enableGsi(AID_SYSTEM, one_shot_arg, io[1], io[2])
    \/ \E image \in GsiImages : MoveExtents(image)
    \/ CancelBegin(AID_SYSTEM)
    \/ CancelFinish

SpecPin == Init /\ [][NextPin]_vars

\* Installations with one or two clients that cancel while partitions are
\* created and written; the image manager reports its progress, so that a
\* creation sees the abort flag.
NextCancel ==
    \/ openInstall(AID_SYSTEM, EmptyPath, "other", "ok")
    \/ \E p \in Installed, cb \in {0 - 1, kBlockSize} :
          createPartition(AID_SYSTEM, p.name, p.size, p.readOnly, GoodEnv.stats, cb,
                          GoodEnv.create_ok, GoodEnv.map_ok, GoodEnv.dev_write_ok, GoodEnv.io)
    \/ commitGsiChunkFromMemory(kBlockSize, TRUE)
    \/ \E uid \in {AID_SYSTEM, AID_APP} : CancelBegin(uid)
    \/ \E uid \in {AID_SYSTEM, AID_APP} : CancelBeginConcurrent(uid)
    \/ CancelFinish

SpecCancel == Init /\ [][NextCancel]_vars

\* the steps of the commitGsiChunkFromStream in flight
StreamSteps ==
    \/ ProgressLock
    \/ ProgressWrite
    \/ StreamCheck
    \/ \E rv \in {0 - 1, 0, kBlockSize \div 2, kBlockSize}, dev_write_ok \in BOOLEAN :
          StreamBlock(rv, dev_write_ok)
    \/ StreamFinish
    \/ StreamReturn

\* A partition streamed to while clients poll the progress and cancel.
NextLock ==
    \/ openInstall(AID_SYSTEM, EmptyPath, "other", "ok")
    \/ createPartition(AID_SYSTEM, "system", kBlockSize, TRUE, GoodEnv.stats, GoodEnv.cb,
                       GoodEnv.create_ok, GoodEnv.map_ok, GoodEnv.dev_write_ok, GoodEnv.io)
    \/ \E bytes \in {0 - kBlockSize, kBlockSize} : StreamBegin(AID_SYSTEM, bytes)
    \/ StreamSteps
    \/ getInstallProgress(AID_SYSTEM)
    \/ CancelBegin(AID_SYSTEM)
    \/ CancelFinish

\* The thread that runs the commit keeps running, and every read of the
\* stream returns.
SpecLock == Init /\ [][NextLock]_vars /\ WF_vars(StreamSteps)

\* the sizes of the device of a writable image: whole sectors, around one
\* write of zeroes and around the bytes erased at most
DeviceSizes ==
    { LP_SECTOR_SIZE, kZeroesSize - LP_SECTOR_SIZE, kZeroesSize,
      kZeroesSize + LP_SECTOR_SIZE, MaxBlocks * kZeroesSize,
      kEraseSize - LP_SECTOR_SIZE, kEraseSize, kEraseSize + LP_SECTOR_SIZE,
      kEraseSize + kZeroesSize, 2 * kEraseSize }

\* An installation with a writable userdata, enabled, and the wipes of its
\* partitions before and after the device boots into it.
NextZero ==
    \/ Up /\ openInstall(AID_SYSTEM, EmptyPath, "other", "ok")
    \/ Up /\ createPartition(AID_SYSTEM, "userdata", kBlockSize, FALSE, GoodEnv.stats,
                             GoodEnv.cb, GoodEnv.create_ok, GoodEnv.map_ok,
                             GoodEnv.dev_write_ok, GoodEnv.io)
    \/ Up /\ enableGsi(AID_SYSTEM, FALSE, "ok", "ok")
    \/ \E uid \in {AID_SYSTEM, AID_SHELL, AID_APP}, name \in {"userdata", "system"},
          map_ok \in BOOLEAN, device_size \in DeviceSizes,
          eio_at \in {0 - 1, 0, kZeroesSize} :
          Up /\ zeroPartition(uid, name, map_ok, device_size, eio_at)
    \/ Reboot
    \/ RunStartupTasks(TRUE, "ok")

SpecZero == Init /\ [][NextZero]_vars

\* -------------------------------------------------------------- properties
CommitOps == {"commitGsiChunkFromStream", "commitGsiChunkFromAshmem",
              "commitGsiChunkFromMemory"}

\* the room left in the image of the live session
Room == installer_.size - installer_.gsi_bytes_written

\* C3: in every state of a session bytes_written is at most size; a commit
\* (a block of a stream, a byte array or the shared buffer) of a chunk longer
\* than size - bytes_written returns false and leaves the session, with its
\* bytes_written, as it was.
C3_BytesWithinSize ==
    /\ [](installer_.live => installer_.gsi_bytes_written \in 0..installer_.size)
    /\ [][(/\ last' # last
           /\ last'.op \in CommitOps
           /\ installer_.live
           /\ last'.chunk > Room)
          => (~last'.ok /\ installer_' = installer_)]_vars

\* a chunk longer than the room left was refused after part of the image
\* had been written
C3_Witness ==
    /\ last.op \in CommitOps
    /\ ~last.ok
    /\ installer_.live
    /\ installer_.gsi_bytes_written > 0
    /\ last.chunk > Room

\* the last call ended an installation without an OK from enable and the
\* service has destroyed the session: a cancel of a live session, a
\* createPartition that failed, an enable of a live session that failed
FailedInstallCleaned ==
    /\ ~installer_.live
    /\ \/ last.op = "cancelGsiInstall" /\ last.ok /\ last.live
       \/ last.op = "createPartition" /\ last.status \in
              {INSTALL_ERROR_GENERIC, INSTALL_ERROR_NO_SPACE,
               INSTALL_ERROR_FILE_SYSTEM_CLUTTERED}
       \/ last.op = "enableGsi" /\ last.live /\ last.status = INSTALL_ERROR_GENERIC

\* C1: after the cleanup of an install that did not return OK from enable no
\* image with the _gsi suffix is mapped as a device and the install_status
\* file is absent.
C1_Atomicity ==
    FailedInstallCleaned => (mapped \cap GsiImages = {} /\ install_status = "absent")

\* the last call was an enableGsi that found a live session and was let in
EnabledSession == last.op = "enableGsi" /\ last.live

\* C2: enable(false) on a live session whose bytes_written differs from its
\* size returns INSTALL_ERROR_GENERIC and writes no install_status; afterwards
\* nothing is installed and neither system_gsi nor userdata_gsi exists.
C2_SizeMismatch ==
    (EnabledSession /\ last.short /\ ~last.one_shot)
        => /\ last.status = INSTALL_ERROR_GENERIC
           /\ ~last.wrote
           /\ ~IsGsiInstalled
           /\ images \cap GsiImages = {}

\* C4: when enable with one_shot = false returns INSTALL_OK for a live
\* session, install_status reads "0", the one_shot file is absent and the
\* install_dir file holds the install directory of the session.
C4_FinalState ==
    (EnabledSession /\ ~last.one_shot /\ last.status = INSTALL_OK)
        => /\ install_status = "0"
           /\ ~one_shot
           /\ install_dir_file = FileOf(last.dir)

\* C5: an enable writes install_status only after the install_dir file holds
\* the install directory and the change of the one_shot file has succeeded.
C5_WriteOrder ==
    (EnabledSession /\ last.wrote)
        => /\ last.mode_ok
           /\ install_dir_file = FileOf(last.dir)

\* a cancelGsiInstall has been issued and has not returned
Cancelling == cancel_pc = "wait"

\* the commit in flight, with blocks still to read, takes its next step
\* while a cancel is pending: it returns false and the session is as it was
BlockBoundaryAborts ==
    (Cancelling /\ stream.pc = "loop" /\ stream.remaining > 0 /\ stream' # stream)
        => /\ stream'.pc = "idle"
           /\ last'.op = "commitGsiChunkFromStream" /\ ~last'.ok
           /\ installer_' = installer_

\* when cancelGsiInstall returns no session is live, and a commit that finds
\* no session returns false
CancelledSessionGone ==
    /\ (last.op = "cancelGsiInstall" /\ last.ok) => (~installer_.live /\ alive = 0)
    /\ (last.op \in CommitOps /\ ~last.live) => ~last.ok

\* C6: a cancel issued while a commit from a stream is in flight makes that
\* commit return false at its next block boundary without writing another
\* block, every commit issued after the cancel, of whatever length, returns
\* false, and when the cancel returns no session is live.
C6_Cancellation ==
    /\ [][BlockBoundaryAborts]_vars
    /\ []((last.op \in CommitOps /\ last.aborting) => ~last.ok)
    /\ []CancelledSessionGone

\* C6, for chunks: a cancel issued while a commit from a stream is in flight
\* makes that commit return false at its next block boundary without writing
\* another block, every commit of a positive length issued after the cancel
\* and before the next createPartition returns false, and when the cancel
\* returns no session is live.
C6_CancellationOfChunks ==
    /\ [][BlockBoundaryAborts]_vars
    /\ []((last.op \in CommitOps /\ last.aborting /\ last.bytes > 0) => ~last.ok)
    /\ []CancelledSessionGone

\* a commit from a stream that had written a block when the cancel was issued
\* has returned false at the next one, the cancel still waiting for the lock
C6_Witness ==
    /\ last.op = "commitGsiChunkFromStream" /\ ~last.ok /\ ~last.aborting
    /\ last.chunk > 0
    /\ Cancelling /\ should_abort_
    /\ installer_.live /\ installer_.gsi_bytes_written > 0

\* C7: the service holds at most one session, the one installer_ points to,
\* and a createPartition has destroyed the previous session before the new
\* one allocates or maps: the image of the live session exists, and is
\* mapped when the session holds its device.
C7_OneSession ==
    /\ alive \in {0, 1}
    /\ installer_.live <=> alive = 1
    /\ installer_.live =>
          /\ GetBackingFile(installer_.name) \in images
          /\ installer_.system_device => GetBackingFile(installer_.name) \in mapped

\* a createPartition that found a live session has returned with a new one
C7_Witness ==
    /\ last.op = "createPartition" /\ last.ok /\ last.live
    /\ installer_.live /\ alive = 1

\* C8: getInstallProgress never waits for the service lock: whoever holds
\* lock_, the call can take its step and return as soon as progress_lock_ is
\* free, and the holder of progress_lock_ can go on to release it without
\* waiting for lock_.
C8_ProgressNeverWaits ==
    /\ progress_lock_ = "free" => ENABLED getInstallProgress(AID_SYSTEM)
    /\ progress_lock_ # "free" => ENABLED ProgressWrite

\* a progress record has been returned while a commit holds the service lock
\* in the middle of its loop
C8_Witness ==
    /\ last.op = "getInstallProgress" /\ last.ok
    /\ lock_ = "stream" /\ stream.pc = "loop" /\ stream.remaining > 0

\* C9: every record getInstallProgress returns is the progress record as it
\* was before or after one StartAsyncOperation or UpdateProgress, never a mix
\* of the fields of two.
C9_NoTornRead ==
    last.op = "getInstallProgress" => ~last.torn

\* a record has been read between two updates of the commit in flight: it is
\* the record the update after the first block left
C9_Witness ==
    /\ last.op = "getInstallProgress" /\ last.ok /\ ~last.torn
    /\ stream.pc \in {"loop", "update"} /\ stream.next = "loop"
    /\ reading.valid /\ reading.bytes_processed > 0
    /\ progress_ = stream.post /\ progress_.status = STATUS_WORKING

\* C10: during one commit, whatever length >= 0 was asked for, the values of
\* bytes_processed read one after the other never decrease and never exceed
\* total_bytes.
C10_MonotonicProgress ==
    /\ [][(reading.valid /\ reading'.valid)
             => reading'.bytes_processed >= reading.bytes_processed]_vars
    /\ [](reading.valid => reading.bytes_processed <= reading.total_bytes)

\* C11: after each block the session accepted from a stream the progress
\* record holds processed = the session's bytes written, total = the
\* partition size and status = working, also when the image is streamed in
\* several commits; when the commit has written its last block the record
\* holds status = complete with processed = total.
C11_ProgressTracksWrites ==
    /\ (stream.pc = "loop" /\ stream.remaining < stream.bytes)
          => /\ progress_.status = STATUS_WORKING
             /\ progress_.bytes_processed = installer_.gsi_bytes_written
             /\ progress_.total_bytes = installer_.size
    /\ stream.pc = "return"
          => /\ progress_.status = STATUS_COMPLETE
             /\ progress_.bytes_processed = progress_.total_bytes

\* nothing of an installation is left: no status file and no image
NothingInstalled ==
    /\ ~IsGsiInstalled
    /\ install_status = "absent"
    /\ ~one_shot
    /\ install_dir_file = AbsentFile
    /\ images \cap GsiImages = {}

OneShotEnabled ==
    last.op = "enableGsi" /\ last.one_shot /\ last.status = INSTALL_OK

\* the startup tasks have run after a boot into the installed image that
\* found the one_shot file, and the installation had its complete marker
OneShotStarted ==
    /\ last.op = "RunStartupTasks" /\ booted
    /\ last.one_shot /\ last.was = "disabled" /\ last.marked

\* a boot that directly follows the startup tasks of a one-shot boot does
\* not go into the installed image
SecondBootIsOriginal ==
    (last.op = "RunStartupTasks" /\ booted /\ last.one_shot /\ last.was = "disabled"
     /\ last'.op = "Reboot") => ~booted'

StartedInGsi == last.op = "RunStartupTasks" /\ booted /\ last.wrote

\* what the startup tasks make of the status they found
Confirmed ==
    /\ last.was = "0" => install_status = "ok"
    /\ last.was \in {"ok", "disabled"} => install_status = last.was

WipeAsked == last.op = "removeGsi" /\ booted /\ last.ok

\* the startup tasks have run after a boot into the original system that
\* found install_status "wipe", and their deletions worked
WipeStarted ==
    last.op = "RunStartupTasks" /\ ~booted /\ last.was = "wipe" /\ last.ok

NoResidue ==
    /\ install_status = "absent"
    /\ ~one_shot
    /\ install_dir_file = AbsentFile
    /\ complete = {}
    /\ images \cap GsiImages = {}

\* a removeGsi made while the original system is booted returned true
Removed == last.op = "removeGsi" /\ ~booted /\ last.ok

\* C16: while the installed image is not booted a removeGsi whose deletions
\* work returns true, after it no install_status, one_shot, install_dir or
\* complete file and no image named *_gsi* is left, and a removeGsi that
\* follows it returns true as well.
C16_RemoveTwice ==
    /\ [][(~booted /\ \E uid \in {AID_SHELL}, io \in IoOutcomes : removeGsi(uid, TRUE, io))
             => last'.ok]_vars
    /\ [](Removed => NoResidue)
    /\ [][(Removed /\ last'.op = "removeGsi" /\ last'.status # EX_SECURITY)
             => (last'.ok /\ NoResidue')]_vars

\* the status files
status_files == << install_status, one_shot, install_dir_file, complete >>

\* C17: disableGsi returns true only when an installation exists and no
\* session is live, and install_status then reads "disabled"; when a session
\* is live or nothing is installed it returns false and leaves every status
\* file as it is.
C17_Disable ==
    /\ []((last.op = "disableGsi" /\ last.ok)
             => (install_status = "disabled" /\ last.was # "absent" /\ ~last.live))
    /\ [][(last'.op = "disableGsi" /\ (installer_.live \/ install_status = "absent"))
             => (~last'.ok /\ UNCHANGED status_files)]_vars

C17_Witness ==
    /\ last.op = "disableGsi" /\ last.status = NoStatus /\ ~last.ok
    /\ last.live /\ last.was = "0"
    /\ install_status = "0"

\* the step is an enableGsi that finds no live session and lets its caller in
Reenables ==
    ~installer_.live /\ last'.op = "enableGsi" /\ last'.status # EX_SECURITY

\* an enableGsi that returns INSTALL_OK found install_status "disabled" and
\* leaves "0", with the one_shot file there iff it was asked for
ReenabledRight ==
    /\ install_status = "disabled"
    /\ install_status' = "0"
    /\ one_shot' = last'.one_shot

\* C18: an enableGsi with no live session returns INSTALL_OK only if an
\* installation exists and install_status reads "disabled"; then
\* install_status reads "0" and the one_shot file exists iff one_shot was
\* asked for; in every other case it returns INSTALL_ERROR_GENERIC and
\* changes no status file.
C18_Reenable ==
    [][Reenables =>
         IF last'.status = INSTALL_OK THEN ReenabledRight
         ELSE last'.status = INSTALL_ERROR_GENERIC /\ UNCHANGED status_files]_vars

\* C18, the refusals apart from the failed writes: the same, where in every
\* other case it returns INSTALL_ERROR_GENERIC, and changes no status file
\* when nothing is installed or install_status does not read "disabled".
C18_ReenableOrRefuse ==
    [][Reenables =>
         IF last'.status = INSTALL_OK THEN ReenabledRight
         ELSE /\ last'.status = INSTALL_ERROR_GENERIC
              /\ install_status # "disabled" => UNCHANGED status_files]_vars

C18_Witness ==
    /\ last.op = "enableGsi" /\ ~last.live /\ last.status = INSTALL_OK /\ last.one_shot
    /\ one_shot /\ install_status = "0"

\* what the service holds in memory
service_state == << install_dir_, installer_, should_abort_, progress_, lock_,
                    progress_lock_, alive, stream, cancel_pc, reading >>

\* C19: an openInstall from a caller that is neither root nor system returns
\* the security error and changes no file and nothing the service holds: not
\* the install directory, the complete marker or the install_dir file.
C19_OpenInstallDenied ==
    [][(\E uid \in {AID_SHELL, AID_APP}, io \in IoOutcomes :
            openInstall(uid, EmptyPath, "other", io))
          => /\ last'.op = "openInstall" /\ last'.status = EX_SECURITY
             /\ UNCHANGED << files, service_state, booted >>]_vars

C19_Witness ==
    /\ last.op = "openInstall" /\ last.status = EX_SECURITY
    /\ installer_.live /\ "dsu" \in complete /\ install_dir_file.present

\* C20: a setGsiAshmem made during a session by a caller that is neither root
\* nor system returns the security error and does not map the buffer into
\* the session.
C20_AshmemDenied ==
    (last.op = "setGsiAshmem" /\ last.uid \notin {AID_ROOT, AID_SYSTEM} /\ last.live)
       => (last.status = EX_SECURITY /\ ~last.ok /\ ~installer_.ashmem_mapped)

\* a directory ValidateInstallParams accepts: the default image directory
\* or a directory on external storage
Validated(dir) == dir = kDefaultDsuImageFolder \/ IsExternalStoragePath(dir, "vfat")

\* C21: a live session's install directory is one that passed validation,
\* and a createPartition that follows an openInstall that did not return
\* INSTALL_OK returns INSTALL_ERROR_GENERIC and leaves no session.
C21_ValidatedInstallDir ==
    /\ [](installer_.live => Validated(installer_.install_dir))
    /\ [][(/\ last.op = "openInstall"
           /\ last.status # INSTALL_OK
           /\ last'.op = "createPartition")
          => (last'.status = INSTALL_ERROR_GENERIC /\ ~installer_'.live)]_vars

\* C22: while the installed image is booted an openInstall or a
\* createPartition that passes the caller check returns
\* INSTALL_ERROR_GENERIC, creates no session, and no backing image is
\* created, deleted or mapped.
C22_NoInstallInsideGsi ==
    [][(/\ booted
        /\ last'.op \in {"openInstall", "createPartition"}
        /\ last'.status # EX_SECURITY)
       => (/\ last'.status = INSTALL_ERROR_GENERIC
           /\ ~installer_'.live
           /\ images' = images
           /\ mapped' = mapped)]_vars

\* an openInstall was refused inside the installed image, whose images exist
C22_Witness ==
    /\ booted
    /\ last.op = "openInstall"
    /\ last.status = INSTALL_ERROR_GENERIC
    /\ images # {}

\* the free space is below the threshold share of the file system
Cluttered(stats) == stats.free * 100 < kMinimumFreeSpaceThreshold * stats.total

\* a createPartition that reaches the space check of its session: made by a
\* system caller while the original system runs, with an install directory
\* that exists and a size that is positive and a multiple of the sector size
SpaceChecked(p, stats) ==
    /\ createPartition(AID_SYSTEM, p.name, p.size, p.readOnly, stats, GoodEnv.cb,
                       GoodEnv.create_ok, GoodEnv.map_ok, GoodEnv.dev_write_ok, GoodEnv.io)
    /\ ~booted
    /\ install_dir_.comps \in ExistingDirs
    /\ p.size > 0
    /\ p.size % LP_SECTOR_SIZE = 0

\* C23: a createPartition on a file system whose free space is below 40% of
\* its size returns INSTALL_ERROR_FILE_SYSTEM_CLUTTERED whatever size is asked
\* for, and creates no image.
C23_AlwaysCluttered ==
    [][\A p \in DirPartitions, stats \in SpaceStats :
          (SpaceChecked(p, stats) /\ Cluttered(stats))
          => (/\ last'.status = INSTALL_ERROR_FILE_SYSTEM_CLUTTERED
              /\ images' \subseteq images)]_vars

\* C23, amended: a createPartition that reaches the space check on a file
\* system whose free space is below 40% of its size returns
\* INSTALL_ERROR_FILE_SYSTEM_CLUTTERED when the size asked for is below the
\* free bytes and INSTALL_ERROR_NO_SPACE when it is not, and creates no image.
C23_ClutteredOrNoSpace ==
    [][\A p \in DirPartitions, stats \in SpaceStats :
          (SpaceChecked(p, stats) /\ Cluttered(stats))
          => (/\ last'.status = IF stats.free <= p.size
                                THEN INSTALL_ERROR_NO_SPACE
                                ELSE INSTALL_ERROR_FILE_SYSTEM_CLUTTERED
              /\ ~installer_'.live
              /\ images' \subseteq images)]_vars

\* a partition was refused because the file system is cluttered
C23_Witness ==
    /\ last.op = "createPartition"
    /\ last.status = INSTALL_ERROR_FILE_SYSTEM_CLUTTERED
    /\ ~installer_.live

\* C24: a createPartition that reaches the space check returns
\* INSTALL_ERROR_NO_SPACE exactly when the free bytes of the host are fewer
\* than the size asked for; a size equal to the free bytes is not refused
\* for lack of space.
C24_NoSpaceBelowSize ==
    [][\A p \in DirPartitions, stats \in SpaceStats :
          SpaceChecked(p, stats)
          => (last'.status = INSTALL_ERROR_NO_SPACE <=> stats.free < p.size)]_vars

\* the last call was a commit from a stream that returned false because the
\* stream ended or a read failed (no chunk reached the session) or because
\* the write of a chunk that fits the image failed
StreamIoFailed ==
    /\ last.op = "commitGsiChunkFromStream"
    /\ last.live
    /\ ~last.ok
    /\ last.bytes > 0
    /\ installer_.live => last.chunk <= Room

\* C25: after a commit from a stream that returned false on an input or
\* output failure no session is live, no device is mapped and the image of
\* the session is gone.
C25_IoFailureAborts ==
    StreamIoFailed => (/\ ~installer_.live
                       /\ mapped = {}
                       /\ images \cap GsiImages = {})

\* a createPartition by a system caller that is a usage error: no install
\* is open, or the size is not a multiple of the sector size
UsageError(p, stats) ==
    /\ createPartition(AID_SYSTEM, p.name, p.size, p.readOnly, stats, GoodEnv.cb,
                       GoodEnv.create_ok, GoodEnv.map_ok, GoodEnv.dev_write_ok, GoodEnv.io)
    /\ install_dir_ = EmptyPath \/ p.size % LP_SECTOR_SIZE # 0

\* C26: a createPartition refused because no install is open or because its
\* size is not a multiple of 512 returns INSTALL_ERROR_GENERIC and changes
\* nothing the service holds and no file, image or mapping: a session that
\* was live is still live.
C26_UsageErrorsKeepState ==
    [][\A p \in DirPartitions, stats \in SpaceStats :
          UsageError(p, stats)
          => (/\ last'.status = INSTALL_ERROR_GENERIC
              /\ UNCHANGED << service_state, files >>)]_vars

\* the live session is a writable partition: formatted and marked succeeded
\* by createPartition, with no device open for streaming
Finalized == installer_.live /\ ~installer_.readOnly

\* C27: a live writable session is finalized without streaming (marked
\* succeeded, no device open, nothing written), and a commit made when no
\* session is live or when the live session is such a writable partition
\* returns false, leaves the session as it was and writes to no device.
C27_CommitNeedsStreaming ==
    /\ [](Finalized => (/\ installer_.succeeded
                        /\ ~installer_.system_device
                        /\ installer_.gsi_bytes_written = 0))
    /\ [][(/\ last'.op \in CommitOps
           /\ last' # last
           /\ last'.status # EX_SECURITY
           /\ ~installer_.live \/ Finalized)
          => (/\ last'.status = NoStatus
              /\ ~last'.ok
              /\ installer_' = installer_
              /\ UNCHANGED files)]_vars

\* the live session is one whose unwinding keeps the userdata image, and
\* that image exists
UnwindKeeps == KeepsUserdata(installer_) /\ GetBackingFile("userdata") \in images

\* a createPartition of an opened install that finds no session, whose own
\* image exists beside the userdata image
Recreates(p, e) ==
    /\ createPartition(AID_SYSTEM, p.name, p.size, p.readOnly, e.stats, e.cb,
                       e.create_ok, e.map_ok, e.dev_write_ok, e.io)
    /\ install_dir_ # EmptyPath
    /\ ~installer_.live
    /\ {GetBackingFile(p.name), GetBackingFile("userdata")} \subseteq images

ClosedUnfinished ==
    /\ last.op = "closeInstall"
    /\ last.status = INSTALL_OK
    /\ install_status = "absent"

\* C29: an openInstall that returns INSTALL_OK leaves no complete marker for
\* its directory, and a closeInstall of an installation that was never
\* enabled, failed or was cancelled does not leave the marker reading "OK".
C29_CompleteMeansClean ==
    /\ [][(last'.op = "openInstall" /\ last'.status = INSTALL_OK)
          => GetCompleteIndication(install_dir_') \notin complete']_vars
    /\ [](ClosedUnfinished => GetCompleteIndication(last.dir) \notin complete)

\* the instances some client holds
Live == { gsid.held[c] : c \in Clients } \ {0}

\* C30: at most one instance is held by clients and it is the registered
\* one; getClient hands out that instance when there is one and constructs
\* a new one only when there is none; the process exits only in the
\* destructor of the instance that is still registered, when no client
\* holds an instance; and the destructor of an instance that is no longer
\* the registered one does not exit and leaves the clients what they hold.
C30_Singleton ==
    /\ [](Cardinality(Live) <= 1 /\ Live \subseteq {gsid.sInstance})
    /\ [][\A c \in Clients :
             getClient(c)
             => IF Live # {}
                THEN gsid'.handed \in Live /\ ~gsid'.created /\ gsid'.made = gsid.made
                ELSE gsid'.created /\ gsid'.handed = gsid.made + 1]_vars
    /\ [][gsid'.exited => (gsid.sInstance \in gsid.dying /\ Live = {})]_vars
    /\ [][\A this \in 1..MaxInstances :
             (DestroyService(this) /\ gsid.sInstance # this)
             => (/\ ~gsid'.exited
                 /\ gsid'.held = gsid.held
                 /\ gsid'.sInstance = gsid.sInstance)]_vars

\* the destructor of a stale instance has run while a client holds the
\* instance that was constructed after it
C30_Witness ==
    /\ last.op = "~GsiService"
    /\ ~gsid.exited
    /\ Live = {gsid.sInstance}
    /\ gsid.made >= 2

C32_FinalizeValidates ==
    [][\A one_shot_arg \in BOOLEAN, io \in IoPairs :
          (enableGsi(AID_SYSTEM, one_shot_arg, io[1], io[2]) /\ installer_.live
              /\ last'.status = INSTALL_OK)
          => Validate(DestroyInstaller(World, installer_))]_vars

\* a step taken with the service lock free, which a handler takes for the
\* step, or a step of the commit that holds the lock
UnderServiceLock == lock_ = "free" \/ (stream.pc # "idle" /\ stream' # stream)

\* C33: every step that changes the session pointer or the session, the
\* install directory or a boot-status file is taken by a handler that holds
\* the service lock.
C33_HandlersHoldLock ==
    [][(installer_' # installer_ \/ install_dir_' # install_dir_
           \/ install_status' # install_status \/ one_shot' # one_shot
           \/ install_dir_file' # install_dir_file \/ complete' # complete)
          => UnderServiceLock]_vars

\* C34: every image that is mapped is the device of the live session, which
\* is streaming, and the image manager a session's device was mapped with
\* exists as long as the session holds the device.
C34_MappedReleased ==
    /\ mapped \subseteq { GetBackingFile(installer_.name) }
    /\ mapped # {} => installer_.live /\ installer_.system_device
    /\ installer_.system_device => installer_.device_manager = "open"

\* the handlers that destroy the live session
TeardownOps == {"cancelGsiInstall", "createPartition", "enableGsi"}

C36_CloseReportsWrite ==
    (last.op = "closeInstall" /\ last.status # EX_SECURITY)
        => IF last.dir = EmptyPath
           THEN ~last.wrote
           ELSE last.status = (IF last.wrote THEN INSTALL_OK ELSE INSTALL_ERROR_GENERIC)

\* C37: whenever no cancelGsiInstall is in progress should_abort_ is false,
\* and a createPartition or a commit that found the flag raised was issued
\* while a cancelGsiInstall was in progress and has not returned since.
C37_AbortFlagClears ==
    /\ cancel_pc = "idle" => ~should_abort_
    /\ (last.op \in CommitOps \cup {"createPartition"} /\ last.aborting)
          => cancel_pc # "idle"

\* one of two concurrent cancels has returned and destroyed the live
\* session; the other one is still waiting for the lock
C37_Witness ==
    /\ last.op = "cancelGsiInstall" /\ last.live
    /\ cancel_pc = "wait"
    /\ ~should_abort_

C39_AshmemBounded ==
    /\ [][((\E uid \in {AID_SYSTEM, AID_APP}, bytes \in ChunkBytes, dev_write_ok \in BOOLEAN,
               fault \in BOOLEAN : commitGsiChunkFromAshmem(uid, bytes, dev_write_ok, fault))
            /\ last'.ok)
           => /\ installer_.live /\ installer_.ashmem_mapped
              /\ 0 <= last'.bytes /\ last'.bytes <= installer_.ashmem_size]_vars
    /\ [][((\E uid \in {AID_SYSTEM, AID_APP}, size \in AshmemSizes, map_ok \in BOOLEAN :
               setGsiAshmem(uid, size, map_ok))
            /\ last'.ok)
           => ~installer_.ashmem_mapped]_vars


\* C40: a zeroPartition that opened the device of an installed image that is
\* not running, on a device without I/O errors, wrote zeroes to exactly the
\* first min(1 MiB, device size) bytes and attempted no write past the end of
\* the device.
C40_ZeroesFirstMiB ==
    (last.op = "zeroPartition" /\ last.ok /\ ~last.eio)
        => /\ last.zeroed = Min(kEraseSize, last.device_size)
           /\ ~last.past_end

====
